---- MODULE Spec2Model ----
(***************************************************************************)
(* The run-tracking orchestration engine of the Galerians autosplitter     *)
(* (src/src/autosplitter.rs) together with the parts of the timer client   *)
(* (src/src/lss.rs), the game-state source (src/src/game.rs), the split    *)
(* types (src/src/main.rs) and the route tables (src/src/splits.rs) that   *)
(* it calls.  One action is one iteration of the loop in                   *)
(* AutoSplitter::update.  Every value the code reads from outside (a timer *)
(* reply, a word of game memory, the outcome of a socket operation) is     *)
(* chosen at the place where the code reads it, so a handler is modelled   *)
(* as the set of states it can end in.                                     *)
(***************************************************************************)
EXTENDS Integers, Sequences, FiniteSets, TLC

VARIABLES
  connection_state,          \* AutoSplitter.connection_state
  run_state,                 \* AutoSplitter.run_state
  last_room,                 \* AutoSplitter.last_room, <<map, room>>
  live_split_keep_alive,     \* KeepAliveCounter.remaining of the three counters
  emulator_keep_alive,
  game_keep_alive,
  is_connected,              \* LiveSplit.is_connected
  requested_split_type,      \* Option<SplitType>, "None" when absent
  effective_split_type,
  last_reported_split_type,
  splits,                    \* Option<&'static [Event]>: the name of a table or "None"
  running,                   \* FALSE once AutoSplitter::update has returned
  trace,                     \* history: what the last loop iteration did, in order
  obs,                       \* history: what the last loop iteration read
  recon,                     \* history: the last iteration's split-type reconciliation
  watch,                     \* what obs and recon record: "timer" or "game"
  counter,                   \* a KeepAliveCounter on its own, with its history
  client,                    \* a LiveSplit client on its own, with its history
  source                     \* a game-state source on its own, with its history

vars == << connection_state, run_state, last_room, live_split_keep_alive,
           emulator_keep_alive, game_keep_alive, is_connected,
           requested_split_type, effective_split_type, last_reported_split_type,
           splits, running, trace, obs, recon, watch, counter, client, source >>

(***************************************************************************)
(* Bounds of the model.  The keep-alive periods are 334, 334 and 200 in    *)
(* the source; the model runs the same counters with short periods.        *)
(***************************************************************************)
LIVE_SPLIT_KEEP_ALIVE == 1
EMULATOR_KEEP_ALIVE == 1
GAME_KEEP_ALIVE == 1
MaxSplitIndex == 0
\* the periods of a KeepAliveCounter on its own, and the calls made on it
MaxPeriod == 4
MaxCalls == 12
\* the calls made on a LiveSplit client on its own
MaxClientCalls == 3
\* the flag indexes asked of a game version on its own
MaxFlagIndex == 200

(* Program constants *)
MAX_RETRIES == 3
NEW_GAME_MENU_STATE == 99
TRAILER_MENU_STATE == 200
SECOND_ROOM == << 0, 1 >>
FINAL_BOSS_ROOM == << 8, 7 >>
GAME_END_FLAGS == << 37, 38, 39, 80 >>
FLAG_BANK_SIZE == 32

(***************************************************************************)
(* Route tables (src/src/splits.rs).  Maps, stages and items are the       *)
(* discriminants of the enums in src/src/game.rs.                          *)
(***************************************************************************)
Room(map, room) == [kind |-> "Room", a |-> << map, room >>, b |-> << map, room >>]
Room2(map1, room1, map2, room2) ==
  [kind |-> "Room2", a |-> << map1, room1 >>, b |-> << map2, room2 >>]
Flag(stage, flag) == [kind |-> "Flag", a |-> << stage, flag >>, b |-> << stage, flag >>]
Item(item) == [kind |-> "Item", a |-> << item, 0 >>, b |-> << item, 0 >>]

KEY_EVENT_SPLITS ==
  << Item(1), Item(3), Item(4), Item(5), Item(6),
     Item(9), Item(8), Item(30), Item(11), Item(13),
     Item(14), Item(15), Item(16), Item(17), Room(3, 11),
     Item(19), Item(27), Item(20), Item(26), Item(22),
     Item(23), Item(37), Item(21), Item(38), Item(24),
     Room(5, 0), Flag(2, 5), Flag(2, 17), Flag(2, 10), Flag(2, 144),
     Flag(2, 143), Flag(2, 54), Flag(2, 145), Flag(2, 142), Flag(2, 47),
     Flag(2, 35), Flag(2, 95), Flag(2, 23), Flag(2, 11), Room(7, 4),
     Room(7, 6), Room(5, 5), Room(8, 0), Room(8, 4), Room(8, 7) >>

DOOR_SPLITS ==
  << Room(0, 1), Room(0, 12), Room(0, 2), Room(0, 11), Room(0, 3),
     Room(0, 11), Room(0, 13), Room(0, 14), Room(0, 4), Room(0, 14),
     Room(0, 6), Room(0, 14), Room(0, 0), Room(0, 14), Room(1, 10),
     Room(1, 1), Room(1, 0), Room(1, 8), Room(1, 0), Room(1, 1),
     Room(1, 10), Room(0, 14), Room(0, 13), Room2(0, 7, 1, 5), Room(0, 13),
     Room(0, 14), Room(1, 10), Room(1, 12), Room(1, 7), Room(2, 15),
     Room(2, 0), Room(2, 15), Room2(2, 9, 2, 10), Room(2, 16), Room(2, 1),
     Room(2, 16), Room2(2, 9, 2, 10), Room(1, 13), Room(1, 2), Room(1, 13),
     Room2(2, 9, 2, 10), Room(2, 5), Room2(2, 9, 2, 10), Room(2, 7), Room(2, 8),
     Room(2, 7), Room2(2, 9, 2, 10), Room(2, 11), Room2(2, 9, 2, 10), Room(2, 15),
     Room(2, 2), Room(2, 3), Room(2, 17), Room(2, 4), Room(2, 19),
     Room(1, 18), Room(1, 4), Room(3, 11), Room(3, 9), Room(3, 3),
     Room(3, 12), Room(3, 5), Room(3, 12), Room(3, 13), Room(3, 14),
     Room(3, 7), Room(3, 14), Room(3, 13), Room(3, 12), Room(3, 3),
     Room(3, 0), Room(4, 0), Room(4, 9), Room(4, 1), Room(4, 9),
     Room(4, 10), Room(4, 11), Room(4, 10), Room(3, 13), Room(3, 12),
     Room(3, 4), Room(3, 12), Room(3, 3), Room(3, 0), Room(4, 0),
     Room(4, 9), Room(4, 10), Room(4, 11), Room(4, 6), Room(4, 11),
     Room(4, 10), Room(4, 9), Room(4, 3), Room(4, 2), Room(4, 3),
     Room(4, 9), Room(4, 0), Room(3, 0), Room(3, 11), Room(3, 9),
     Room(3, 3), Room(3, 12), Room(3, 13), Room(3, 14), Room(3, 7),
     Room(3, 15), Room(3, 7), Room(3, 14), Room(3, 13), Room(3, 12),
     Room(3, 3), Room(3, 0), Room(3, 11), Room(3, 10), Room(3, 2),
     Room(3, 10), Room(5, 0), Room(7, 6), Room(7, 1), Room(7, 6),
     Flag(2, 50), Room(5, 0), Room(5, 1), Room(5, 0), Room(6, 6),
     Room(6, 3), Room(6, 6), Room(6, 0), Room(6, 6), Flag(2, 27),
     Room(6, 5), Room(6, 6), Flag(2, 15), Room(6, 2), Room(6, 6),
     Room(7, 6), Flag(2, 44), Room(7, 3), Room(7, 6), Flag(2, 41),
     Room(7, 2), Room(7, 6), Room(7, 4), Room(7, 6), Room(7, 0),
     Room(7, 6), Room(6, 6), Room(6, 4), Room(6, 6), Room(6, 1),
     Room(6, 6), Room(7, 6), Room(7, 4), Room(7, 6), Room(5, 0),
     Room(5, 1), Room(5, 0), Room(5, 4), Room(5, 6), Room(5, 8),
     Room(5, 6), Room(5, 5), Room(8, 0), Room(8, 8), Room(8, 0),
     Room(8, 1), Room(8, 8), Room(8, 1), Room(8, 2), Room(8, 8),
     Room(8, 2), Room(8, 3), Room(8, 8), Room(8, 3), Room(8, 4),
     Room(8, 7) >>

Table(name) ==
  CASE name = "KEY_EVENT_SPLITS" -> KEY_EVENT_SPLITS
    [] name = "DOOR_SPLITS" -> DOOR_SPLITS

(***************************************************************************)
(* SplitType (src/src/main.rs).  An Option is the value or "None".         *)
(***************************************************************************)
SplitTypes == { "AllDoors", "RouteDoors", "KeyEvents", "AllDoorsConsole", "RouteDoorsConsole" }

SplitType_splits(t) ==
  CASE t \in { "AllDoors", "AllDoorsConsole" } -> "None"
    [] t = "RouteDoors" -> "DOOR_SPLITS"
    [] t = "KeyEvents" -> "KEY_EVENT_SPLITS"
    [] t = "RouteDoorsConsole" -> "CONSOLE_DOOR_SPLITS"

\* mutant: the names of two split types are mixed up
SplitType_try_from_swapped(value) ==
  CASE value \in { "AllDoors", "all-doors" } -> "AllDoors"
    [] value \in { "RouteDoors", "route-doors" } -> "KeyEvents"
    [] value \in { "KeyEvents", "key-events" } -> "RouteDoors"
    [] value \in { "AllDoorsConsole", "all-doors-console" } -> "AllDoorsConsole"
    [] value \in { "RouteDoorsConsole", "route-doors-console" } -> "RouteDoorsConsole"
    [] OTHER -> "None"

\* TryFrom<&str>: the split type, or "None" for Err
SplitType_try_from(value) ==
  CASE value \in { "AllDoors", "all-doors" } -> "AllDoors"
    [] value \in { "RouteDoors", "route-doors" } -> "RouteDoors"
    [] value \in { "KeyEvents", "key-events" } -> "KeyEvents"
    [] value \in { "AllDoorsConsole", "all-doors-console" } -> "AllDoorsConsole"
    [] value \in { "RouteDoorsConsole", "route-doors-console" } -> "RouteDoorsConsole"
    [] OTHER -> "None"

(***************************************************************************)
(* What the environment can answer.                                        *)
(***************************************************************************)
\* lines the timer can send for gettimerphase; "Stopped" is no phase name
PhaseLines == { "NotRunning", "Running", "Ended", "Paused", "Stopped" }
\* the declared length of DOOR_SPLITS, the first index past the table
DOOR_SPLITS_LEN == 176
\* split indexes the timer can report
SplitIndexes == (-1 .. MaxSplitIndex) \cup { DOOR_SPLITS_LEN }
\* lines the timer can send for getsplitindex; "x" is no integer
IndexLines == { ToString(i) : i \in SplitIndexes } \cup { "x" }
\* where the game's side is recorded the timer reports more indexes to
\* check_split_event, so that the tables are looked up at an Item, a Room, a
\* Room2 and a Flag event
EventIndexes == { -1, 0, 3, 23, 26, DOOR_SPLITS_LEN }
EventIndexLines == { ToString(i) : i \in EventIndexes } \cup { "x" }
\* lines the timer can send for getcustomvariablevalue; "\\xff" stands for bytes
\* that are not UTF-8
InvalidUtf8 == "\\xff"
VariableLines == { "-", "", "key-events", "RouteDoors", "speedrun", InvalidUtf8 }
\* where the game's side is recorded the published value is unset or one of
\* the two types with a route table
PublishedLines == { "-", "key-events", "RouteDoors" }
\* the split types the user can request on the command line
RequestedTypes == { "None", "KeyEvents" }
\* values of Game::main_menu_state
MenuStates == { -1, NEW_GAME_MENU_STATE - 1, NEW_GAME_MENU_STATE }
\* rooms the player can be in
Rooms == { SECOND_ROOM, FINAL_BOSS_ROOM, << 1, 5 >> }

(***************************************************************************)
(* Results.  A handler works on a record s of the fields of AutoSplitter   *)
(* and returns the set of records it can end in; s.res is "Ok" or "Err",   *)
(* the Result it returned.                                                 *)
(***************************************************************************)
Ok(s) == [s EXCEPT !.res = "Ok"]
Err(s) == [s EXCEPT !.res = "Err"]
Mark(s, e) == [s EXCEPT !.trace = Append(@, e)]
\* history: the value read for field, kept when the run watches that side
Obs(s, side, field, value) ==
  IF s.watch = side THEN [s EXCEPT !.obs[field] = value] ELSE s
\* the ? operator: F runs on the Ok results, an Err result is returned as it is
Try(S, F(_)) == UNION { IF x.res = "Ok" THEN F(x) ELSE { x } : x \in S }

(***************************************************************************)
(* LiveSplit, the timer client (src/src/lss.rs)                            *)
(***************************************************************************)
connection_lost(s) == Mark([s EXCEPT !.is_connected = FALSE], "lost")

\* the outcome of one write or read on the socket: done, an error of a kind
\* handle_error takes for a lost connection, or another error.  connection_lost
\* has shut the socket down, so nothing succeeds on it afterwards.
IoOutcomes(s) == IF s.is_connected THEN { "ok", "fatal", "other" } ELSE { "fatal" }

RECURSIVE send_attempts(_, _)
send_attempts(s, n) ==
  IF n = 0
    THEN { Err(connection_lost(s)) }
    ELSE UNION { CASE o = "ok" -> { Ok(s) }
                   [] o = "fatal" -> { Err(connection_lost(s)) }
                   [] o = "other" -> send_attempts(s, n - 1)
                 : o \in IoOutcomes(s) }

send(s) == send_attempts(s, MAX_RETRIES)

RECURSIVE recv_attempts(_, _, _)
recv_attempts(s, Lines, n) ==
  IF n = 0
    THEN { Err(connection_lost(s)) }
    ELSE UNION { CASE o = "ok" -> { Ok([s EXCEPT !.line = l]) : l \in Lines }
                   [] o = "fatal" -> { Err(connection_lost(s)) }
                   [] o = "other" -> recv_attempts(s, Lines, n - 1)
                 : o \in IoOutcomes(s) }

\* Lines: the lines the server can answer the pending request with
recv(s, Lines) == recv_attempts(s, Lines, MAX_RETRIES)

RECURSIVE send_io(_, _, _)
\* mutant: an error that handle_error takes for a lost connection is retried
send_io_retries_fatal(connected, io, k) ==
  IF k > MAX_RETRIES
    THEN [is_connected |-> FALSE, res |-> "Err", attempts |-> MAX_RETRIES]
    ELSE CASE io[k] = "ok" -> [is_connected |-> connected, res |-> "Ok", attempts |-> k]
           [] io[k] \in { "fatal", "other" } -> send_io(connected, io, k + 1)

\* send for given outcomes of its writes: io[k] is the outcome of the k-th
\* write_all; attempts counts the writes made
send_io(connected, io, k) ==
  IF k > MAX_RETRIES
    THEN [is_connected |-> FALSE, res |-> "Err", attempts |-> MAX_RETRIES]
    ELSE CASE io[k] = "ok" -> [is_connected |-> connected, res |-> "Ok", attempts |-> k]
           [] io[k] = "fatal" -> [is_connected |-> FALSE, res |-> "Err", attempts |-> k]
           [] io[k] = "other" -> send_io(connected, io, k + 1)

\* recv for given outcomes of its reads: io[k] is the outcome of the k-th
\* read_until
RECURSIVE recv_io(_, _, _)
recv_io(connected, io, k) ==
  IF k > MAX_RETRIES
    THEN [is_connected |-> FALSE, res |-> "Err", attempts |-> MAX_RETRIES]
    ELSE CASE io[k] = "ok" -> [is_connected |-> connected, res |-> "Ok", attempts |-> k]
           [] io[k] = "fatal" -> [is_connected |-> FALSE, res |-> "Err", attempts |-> k]
           [] io[k] = "other" -> recv_io(connected, io, k + 1)

\* str::parse::<i64>: << i >>, or << >> for Err
parse_int(line) ==
  IF \E i \in SplitIndexes \cup EventIndexes : ToString(i) = line
    THEN << CHOOSE i \in SplitIndexes \cup EventIndexes : ToString(i) = line >>
    ELSE << >>

recv_int(s, Lines) ==
  Try(recv(s, Lines),
      LAMBDA t : IF parse_int(t.line) = << >> THEN { Err(t) } ELSE { Ok(t) })

LiveSplit_split(s) == send(Mark(s, "split"))

LiveSplit_reset(s) == send(Mark(s, "reset"))

\* the index is parse_int(line) of the result
get_split_index(s, Lines) == Try(send(s), LAMBDA t : recv_int(t, Lines))

TimerPhase_try_from_raw(line) ==
  IF line \in { "NotRunning", "Running", "Ended", "Paused" } THEN line ELSE "None"

\* mutant: a reply that is no phase name is taken for a lost connection
get_timer_phase_unknown_is_lost(s) ==
  Try(Try(send(s), LAMBDA t : recv(t, PhaseLines)),
      LAMBDA t :
        LET u == Obs(t, "timer", "phase", t.line)
        IN  IF TimerPhase_try_from_raw(u.line) = "None"
              THEN { Err(connection_lost(u)) }
              ELSE { Ok(u) })

\* the phase is TimerPhase_try_from_raw(line) of the result
get_timer_phase(s) ==
  Try(Try(send(s), LAMBDA t : recv(t, PhaseLines)),
      LAMBDA t :
        LET u == Obs(t, "timer", "phase", t.line)
        IN  IF TimerPhase_try_from_raw(u.line) = "None" THEN { Err(u) } ELSE { Ok(u) })

\* the value read is in line of the result: "None" for Ok(None)
get_custom_variable_value(s) ==
  Try(Try(Try(Try(send(s), LAMBDA t : send(t)), LAMBDA t : send(t)),
          LAMBDA t : recv(t, IF t.watch = "game" THEN PublishedLines ELSE VariableLines)),
      LAMBDA t : IF t.line = InvalidUtf8 THEN { Err(t) }
                 ELSE IF t.line = "-" \/ t.line = "" THEN { Ok([t EXCEPT !.line = "None"]) }
                 ELSE { Ok(t) })

\* the connect can fail; a new connection makes the client connected
try_reconnect(s) == { Err(s), Ok([s EXCEPT !.is_connected = TRUE]) }

(***************************************************************************)
(* Game, the game-state source (src/src/game.rs).  Each operator returns   *)
(* the values the read of game memory can give.                            *)
(***************************************************************************)
is_new_game_start(menu_state) ==
  menu_state >= NEW_GAME_MENU_STATE /\ menu_state < TRAILER_MENU_STATE

is_at_main_menu(menu_state) == menu_state >= 0 /\ menu_state < NEW_GAME_MENU_STATE

\* GAME_VERSIONS: the flag_banks_address of each version.  A u32 is the pair
\* of its 16-bit halves << high, low >>: 0x801AF9A0 and 0x801AFFA0.
GAME_VERSIONS ==
  << [name |-> "NTSC-U", flag_banks_address |-> << 32794, 63904 >>],
     [name |-> "NTSC-J", flag_banks_address |-> << 32794, 65440 >>] >>

\* Stage as u32
Stages == 0 .. 3

\* a + n in u32.  The sum that leaves u32 panics when the build checks
\* overflow and wraps when it does not.
add_u32(a, n) ==
  LET low == a[2] + n
      high == a[1] + (low \div 65536)
      wrapped == [panic |-> FALSE, value |-> << high % 65536, low % 65536 >>]
  IN  IF high >= 65536 THEN { [panic |-> TRUE, value |-> << 0, 0 >>], wrapped }
      ELSE { wrapped }

\* 1u64 << bit_index, a u64 being its four 16-bit parts from the highest
\* down.  A shift by 64 or more panics when the build checks overflow and
\* shifts by bit_index mod 64 when it does not.
shl_u64(bit_index) ==
  LET one(k) == [i \in 1 .. 4 |-> IF 4 - i = k \div 16 THEN 2 ^ (k % 16) ELSE 0]
  IN  IF bit_index >= 64
      THEN { [panic |-> TRUE, value |-> << 0, 0, 0, 0 >>],
             [panic |-> FALSE, value |-> one(bit_index % 64)] }
      ELSE { [panic |-> FALSE, value |-> one(bit_index)] }

\* the mutant of flag_bank_address: the third bank is not found behind the second
flag_bank_address_two_banks(version, stage, flag_index) ==
  LET sel == IF flag_index >= 64 THEN << FLAG_BANK_SIZE, flag_index - 64 >>
             ELSE << 0, flag_index >>
      bank_offset == sel[1]
      bit_index == sel[2]
      stage_offset == stage * 8
  IN  { IF a.panic \/ b.panic \/ m.panic
        THEN [panic |-> TRUE, address |-> << 0, 0 >>, mask |-> << 0, 0, 0, 0 >>]
        ELSE [panic |-> FALSE, address |-> b.value, mask |-> m.value] :
        a \in add_u32(version.flag_banks_address, bank_offset),
        b \in UNION { add_u32(x.value, stage_offset) :
                        x \in add_u32(version.flag_banks_address, bank_offset) },
        m \in shl_u64(bit_index) }

\* GameVersion::flag_bank_address: the outcomes of one call
flag_bank_address(version, stage, flag_index) ==
  LET sel == IF flag_index >= 128 THEN << FLAG_BANK_SIZE * 2, flag_index - 128 >>
             ELSE IF flag_index >= 64 THEN << FLAG_BANK_SIZE, flag_index - 64 >>
             ELSE << 0, flag_index >>
      bank_offset == sel[1]
      bit_index == sel[2]
      stage_offset == stage * 8
  IN  { IF a.panic \/ b.panic \/ m.panic
        THEN [panic |-> TRUE, address |-> << 0, 0 >>, mask |-> << 0, 0, 0, 0 >>]
        ELSE [panic |-> FALSE, address |-> b.value, mask |-> m.value] :
        a \in add_u32(version.flag_banks_address, bank_offset),
        b \in UNION { add_u32(x.value, stage_offset) :
                        x \in add_u32(version.flag_banks_address, bank_offset) },
        m \in shl_u64(bit_index) }

\* Game::flag and Game::has_item read one bit, one inventory
game_flag(stage, flag) == BOOLEAN
has_item(item) == BOOLEAN

RECURSIVE all_flags_set(_, _)
all_flags_set(flags, k) ==
  IF k > Len(flags)
    THEN { TRUE }
    ELSE UNION { IF f THEN all_flags_set(flags, k + 1) ELSE { FALSE } : f \in game_flag(3, flags[k]) }

has_defeated_final_boss == all_flags_set(GAME_END_FLAGS, 1)

check_emulator == BOOLEAN

\* GameMemory::discover: an error, an emulator found, none found
search_for_emulator == { "Err", "true", "false" }

\* GameVersion::detect finds a version, which becomes Game.version, or none.
\* The model does not keep Game.version: nothing but the log reads it.
search_for_game == { "Changed", "Unknown" }

\* the search string of Game.version is still in memory, or the game is searched
check_version == { "Same" } \cup search_for_game

(***************************************************************************)
(* KeepAliveCounter, ConnectionState, RunState (src/src/autosplitter.rs)   *)
(***************************************************************************)
KeepAliveCounter_new(period) == [period |-> period, remaining |-> period]

with_trigger_on_start(c) == [c EXCEPT !.remaining = 0]

\* mutant: the check is due when the countdown reaches zero
should_check_at_zero(remaining, period) ==
  IF remaining - 1 <= 0
    THEN [remaining |-> period, check |-> TRUE]
    ELSE [remaining |-> remaining - 1, check |-> FALSE]

should_check(remaining, period) ==
  IF remaining - 1 < 0
    THEN [remaining |-> period, check |-> TRUE]
    ELSE [remaining |-> remaining - 1, check |-> FALSE]

\* mutant: every pending state advances straight to Connected
advance_skips(state) == "Connected"

advance(state) ==
  CASE state = "LiveSplitPending" -> "EmulatorPending"
    [] state = "EmulatorPending" -> "GamePending"
    [] OTHER -> "Connected"

is_started(state) == state # "NotStarted"

is_active(state) == state \in { "Intro", "Active" }

(***************************************************************************)
(* AutoSplitter (src/src/autosplitter.rs)                                  *)
(***************************************************************************)
\* mutant: no early return for a finished run
split_unguarded(s) ==
  LiveSplit_split(IF s.run_state = "NotStarted"
                    THEN [s EXCEPT !.run_state = "Intro", !.last_room = << 0, 0 >>]
                    ELSE s)

\* mutant: a run that has not started is not taken into its intro
split_no_intro(s) ==
  IF s.run_state = "Finished" THEN { Ok(s) } ELSE LiveSplit_split(s)

split(s) ==
  IF s.run_state = "Finished"
    THEN { Ok(s) }
    ELSE LiveSplit_split(IF s.run_state = "NotStarted"
                           THEN [s EXCEPT !.run_state = "Intro", !.last_room = << 0, 0 >>]
                           ELSE s)

\* mutant: the command is sent and the run state is left as it is
reset_keeps_state(s) ==
  IF is_started(s.run_state) THEN LiveSplit_reset(s) ELSE { Ok(s) }

\* mutant: the run state is reset without a command
reset_silent(s) ==
  IF is_started(s.run_state) THEN { Ok([s EXCEPT !.run_state = "NotStarted"]) } ELSE { Ok(s) }

\* mutant: the command is sent for a run that has not started too
reset_always_sends(s) ==
  Try(LiveSplit_reset(s), LAMBDA t : { Ok([t EXCEPT !.run_state = "NotStarted"]) })

reset(s) ==
  IF is_started(s.run_state)
    THEN Try(LiveSplit_reset(s), LAMBDA t : { Ok([t EXCEPT !.run_state = "NotStarted"]) })
    ELSE { Ok(s) }

\* mutant: the reset is tried on a lost connection too
conn_fail_always_reset(s, new_state) == reset([s EXCEPT !.connection_state = new_state])

\* mutant: the run is left as it is
conn_fail_no_reset(s, new_state) == { Ok([s EXCEPT !.connection_state = new_state]) }

conn_fail(s, new_state) ==
  LET t == [s EXCEPT !.connection_state = new_state]
  IN  IF t.is_connected THEN reset(t) ELSE { Ok(t) }

\* mutant: the route table is left as it was
set_split_type_keeps_table(s, split_type) == [s EXCEPT !.effective_split_type = split_type]

set_split_type(s, split_type) ==
  [s EXCEPT !.effective_split_type = split_type, !.splits = SplitType_splits(split_type)]

\* the Option<SplitType> is in line of the result
get_live_split_split_type(s) ==
  Try(get_custom_variable_value(s),
      LAMBDA t :
        LET u == Obs(t, "timer", "published", t.line)
        IN  IF u.line = "None" THEN { Ok(u) }
            ELSE IF SplitType_try_from(u.line) = "None"
              THEN { Ok(Mark([u EXCEPT !.line = "None"], "warn_unrecognized")) }
              ELSE { Ok([u EXCEPT !.line = SplitType_try_from(u.line)]) })

(***************************************************************************)
(* sync_split_type: the arms of its match, in the order of the source      *)
(***************************************************************************)
\* (None, None, None)
arm_default(s) == set_split_type(Mark(s, "warn_default"), "AllDoors")

\* (None, None, Some(split_type))
arm_detected(s, split_type) == set_split_type(s, split_type)

\* mutant: the new split type is adopted without a reset
arm_changed_no_reset(s, old_split_type, new_split_type) ==
  IF old_split_type # new_split_type
    THEN { Ok(set_split_type(s, new_split_type)) }
    ELSE { Ok(s) }

\* (None, Some(old_split_type), Some(new_split_type))
arm_changed(s, old_split_type, new_split_type) ==
  IF old_split_type # new_split_type
    THEN reset(set_split_type(s, new_split_type))
    ELSE { Ok(s) }

\* mutant: the warning does not look at the last reported split type
arm_removed_always_warns(s) == Mark(s, "warn_removed")

\* (_, Some(old_split_type), None)
arm_removed(s) ==
  IF s.last_reported_split_type # "None" THEN Mark(s, "warn_removed") ELSE s

\* mutant: the reported split type wins over the requested one
arm_requested_reported_wins(s, requested, reported) ==
  set_split_type(IF reported # "None" /\ requested # reported
                   THEN Mark(s, "warn_user_choice")
                   ELSE s,
                 IF reported # "None" THEN reported ELSE requested)

\* (Some(requested_split_type), None, None) and
\* (Some(requested_split_type), None, Some(reported_split_type))
arm_requested(s, requested, reported) ==
  set_split_type(IF reported # "None" /\ requested # reported
                   THEN Mark(s, "warn_user_choice")
                   ELSE s,
                 requested)

\* mutant: a newly reported split type replaces the requested one
arm_requested_kept_switches(s, requested, reported) ==
  IF s.last_reported_split_type # reported /\ requested # reported
    THEN set_split_type(Mark(s, "warn_user_kept"), reported)
    ELSE s

\* (Some(requested_split_type), Some(_), Some(reported_split_type))
arm_requested_kept(s, requested, reported) ==
  IF s.last_reported_split_type # reported /\ requested # reported
    THEN Mark(s, "warn_user_kept")
    ELSE s

\* the match of sync_split_type on (requested, effective, live)
match_split_type(s, live) ==
  LET requested == s.requested_split_type
      effective == s.effective_split_type
  IN  CASE requested = "None" /\ effective = "None" /\ live = "None" -> { Ok(arm_default(s)) }
        [] requested = "None" /\ effective = "None" /\ live # "None" ->
             { Ok(arm_detected(s, live)) }
        [] requested = "None" /\ effective # "None" /\ live # "None" ->
             arm_changed(s, effective, live)
        [] effective # "None" /\ live = "None" -> { Ok(arm_removed(s)) }
        [] requested # "None" /\ effective = "None" -> { Ok(arm_requested(s, requested, live)) }
        [] requested # "None" /\ effective # "None" /\ live # "None" ->
             { Ok(arm_requested_kept(s, requested, live)) }

NoRecon ==
  [ran |-> FALSE, done |-> FALSE, from |-> 0, to |-> 0, requested |-> "None",
   effective |-> "None", live |-> "None", last_reported |-> "None",
   run_state |-> "NotStarted", run_state_after |-> "NotStarted"]

\* history: the inputs of the reconciliation that starts in s; its log and its
\* commands will be trace[from + 1 .. to]
recon_begin(s, from, live) ==
  IF s.watch # "timer" THEN s ELSE
  [s EXCEPT !.recon = [ran |-> TRUE, done |-> FALSE, from |-> from, to |-> Len(s.trace),
                       requested |-> s.requested_split_type,
                       effective |-> s.effective_split_type,
                       live |-> live,
                       last_reported |-> s.last_reported_split_type,
                       run_state |-> s.run_state, run_state_after |-> s.run_state]]

recon_end(s) ==
  IF s.watch # "timer" THEN s ELSE
  [s EXCEPT !.recon.done = (s.res = "Ok"), !.recon.to = Len(s.trace),
            !.recon.run_state_after = s.run_state]

\* mutant: the split type that was read is not kept
sync_split_type_forgets(s) ==
  Try(get_live_split_split_type(s),
      LAMBDA t :
        { recon_end(r) :
            r \in Try(match_split_type(recon_begin(t, Len(s.trace), t.line), t.line),
                      LAMBDA u : { Ok(u) }) })

sync_split_type(s) ==
  Try(get_live_split_split_type(s),
      LAMBDA t :
        { recon_end(r) :
            r \in Try(match_split_type(recon_begin(t, Len(s.trace), t.line), t.line),
                      LAMBDA u : { Ok([u EXCEPT !.last_reported_split_type = t.line]) }) })

\* mutant: a running timer always gives an active run
mirror_running_always_active(state, index) == "Active"

\* the run state for a timer phase that is neither NotRunning nor Ended
mirror_running(state, index) ==
  IF state # "Active" /\ index = 0 THEN "Intro" ELSE "Active"

\* mutant: the phase Ended does not finish a run that has not started
sync_with_live_split_ended_keeps(s) ==
  Try(get_timer_phase(s),
      LAMBDA t :
        LET phase == TimerPhase_try_from_raw(t.line)
        IN  CASE phase = "NotRunning" -> sync_split_type([t EXCEPT !.run_state = "NotStarted"])
              [] phase = "Ended" ->
                   sync_split_type(IF t.run_state = "NotStarted" THEN t
                                   ELSE [t EXCEPT !.run_state = "Finished"])
              [] OTHER ->
                   IF t.run_state # "Active"
                     THEN Try(get_split_index(t, IndexLines),
                              LAMBDA u :
                                LET index == parse_int(u.line)[1]
                                IN  sync_split_type(
                                      [Obs(u, "timer", "index", << index >>)
                                         EXCEPT !.run_state = mirror_running(u.run_state, index)]))
                     ELSE sync_split_type([t EXCEPT !.run_state = "Active"]))

sync_with_live_split(s) ==
  Try(get_timer_phase(s),
      LAMBDA t :
        LET phase == TimerPhase_try_from_raw(t.line)
        IN  CASE phase = "NotRunning" -> sync_split_type([t EXCEPT !.run_state = "NotStarted"])
              [] phase = "Ended" -> sync_split_type([t EXCEPT !.run_state = "Finished"])
              [] OTHER ->
                   IF t.run_state # "Active"
                     THEN Try(get_split_index(t, IndexLines),
                              LAMBDA u :
                                LET index == parse_int(u.line)[1]
                                IN  sync_split_type(
                                      [Obs(u, "timer", "index", << index >>)
                                         EXCEPT !.run_state = mirror_running(u.run_state, index)]))
                     ELSE sync_split_type([t EXCEPT !.run_state = "Active"]))

(***************************************************************************)
(* The handlers of the loop in AutoSplitter::update                        *)
(***************************************************************************)
\* mutant: the state advances on a reconnect without the sync
wait_for_live_split_no_sync(s) ==
  { IF r.res = "Ok" /\ r.is_connected
      THEN Ok([r EXCEPT !.live_split_keep_alive = LIVE_SPLIT_KEEP_ALIVE,
                        !.connection_state = advance(r.connection_state)])
      ELSE Ok(r)
    : r \in try_reconnect(s) }

wait_for_live_split(s) ==
  UNION {
    IF r.res = "Ok" /\ r.is_connected
      THEN { IF q.res = "Err" /\ ~q.is_connected
               THEN Ok(q)
               ELSE Ok([(IF q.res = "Err" THEN Mark(q, "warn_sync_failed") ELSE q)
                          EXCEPT !.live_split_keep_alive = LIVE_SPLIT_KEEP_ALIVE,
                                 !.connection_state = advance(q.connection_state)])
             : q \in sync_with_live_split(Mark(r, "sync")) }
      ELSE { Ok(r) }
    : r \in try_reconnect(s) }

wait_for_emulator(s) ==
  { CASE found = "Err" -> Err(s)
      [] found = "true" -> Ok([Mark(s, "emulator_found")
                                 EXCEPT !.emulator_keep_alive = EMULATOR_KEEP_ALIVE,
                                        !.connection_state = advance(s.connection_state)])
      [] found = "false" -> Ok(s)
    : found \in search_for_emulator }

wait_for_game(s) ==
  UNION {
    IF ~alive
      THEN conn_fail(Mark(s, "emulator_gone"), "EmulatorPending")
      ELSE { IF found # "Unknown"
               THEN Ok([Mark(s, "game_found")
                          EXCEPT !.game_keep_alive = GAME_KEEP_ALIVE,
                                 !.connection_state = advance(s.connection_state)])
               ELSE Ok(s)
             : found \in search_for_game }
    : alive \in check_emulator }

\* mutant: a room mapped twice is matched by its first location only
check_split_event_first_room(s) ==
  Try(get_split_index(s, IF s.watch = "game" THEN EventIndexLines ELSE IndexLines),
      LAMBDA t :
        LET split_index == parse_int(t.line)[1]
            u == Obs(t, "game", "event_index", << split_index >>)
            table == Table(u.splits)
        IN  IF split_index < 0 \/ split_index >= Len(table)
              THEN { Ok([u EXCEPT !.ret = FALSE]) }
              ELSE LET event == table[split_index + 1]
                   IN  CASE event.kind = "Room" ->
                              { Ok([Obs(u, "game", "event_room", << r >>) EXCEPT !.ret = (event.a = r)])
                                : r \in Rooms }
                         [] event.kind = "Room2" ->
                              { Ok([Obs(u, "game", "event_room", << r >>)
                                      EXCEPT !.ret = (event.a = r)])
                                : r \in Rooms }
                         [] event.kind = "Flag" ->
                              { Ok([Obs(u, "game", "event_flag", << f >>) EXCEPT !.ret = f])
                                : f \in game_flag(event.a[1], event.a[2]) }
                         [] event.kind = "Item" ->
                              { Ok([Obs(u, "game", "event_item", << f >>) EXCEPT !.ret = f])
                                : f \in has_item(event.a[1]) })

\* mutant: an index outside the table counts as a matched event
check_split_event_outside_matches(s) ==
  Try(get_split_index(s, IF s.watch = "game" THEN EventIndexLines ELSE IndexLines),
      LAMBDA t :
        LET split_index == parse_int(t.line)[1]
            u == Obs(t, "game", "event_index", << split_index >>)
            table == Table(u.splits)
        IN  IF split_index < 0 \/ split_index >= Len(table)
              THEN { Ok([u EXCEPT !.ret = TRUE]) }
              ELSE LET event == table[split_index + 1]
                   IN  CASE event.kind = "Room" ->
                              { Ok([Obs(u, "game", "event_room", << r >>) EXCEPT !.ret = (event.a = r)])
                                : r \in Rooms }
                         [] event.kind = "Room2" ->
                              { Ok([Obs(u, "game", "event_room", << r >>)
                                      EXCEPT !.ret = (event.a = r \/ event.b = r)])
                                : r \in Rooms }
                         [] event.kind = "Flag" ->
                              { Ok([Obs(u, "game", "event_flag", << f >>) EXCEPT !.ret = f])
                                : f \in game_flag(event.a[1], event.a[2]) }
                         [] event.kind = "Item" ->
                              { Ok([Obs(u, "game", "event_item", << f >>) EXCEPT !.ret = f])
                                : f \in has_item(event.a[1]) })

\* the bool is in ret of the result
check_split_event(s) ==
  Try(get_split_index(s, IF s.watch = "game" THEN EventIndexLines ELSE IndexLines),
      LAMBDA t :
        LET split_index == parse_int(t.line)[1]
            u == Obs(t, "game", "event_index", << split_index >>)
            table == Table(u.splits)
        IN  IF split_index < 0 \/ split_index >= Len(table)
              THEN { Ok([u EXCEPT !.ret = FALSE]) }
              ELSE LET event == table[split_index + 1]
                   IN  CASE event.kind = "Room" ->
                              { Ok([Obs(u, "game", "event_room", << r >>) EXCEPT !.ret = (event.a = r)])
                                : r \in Rooms }
                         [] event.kind = "Room2" ->
                              { Ok([Obs(u, "game", "event_room", << r >>)
                                      EXCEPT !.ret = (event.a = r \/ event.b = r)])
                                : r \in Rooms }
                         [] event.kind = "Flag" ->
                              { Ok([Obs(u, "game", "event_flag", << f >>) EXCEPT !.ret = f])
                                : f \in game_flag(event.a[1], event.a[2]) }
                         [] event.kind = "Item" ->
                              { Ok([Obs(u, "game", "event_item", << f >>) EXCEPT !.ret = f])
                                : f \in has_item(event.a[1]) })

\* mutant: the last room is not recorded
update_progress_keeps_last_room(s) ==
  UNION {
    LET t == Mark(Obs(s, "game", "room", << current_room >>), "match")
        done ==
          IF t.last_room = FINAL_BOSS_ROOM
            THEN UNION { IF defeated
                           THEN Try(split(Obs(t, "game", "boss", << TRUE >>)),
                                    LAMBDA u : { Ok([u EXCEPT !.run_state = "Finished"]) })
                           ELSE { Ok(Obs(t, "game", "boss", << FALSE >>)) }
                         : defeated \in has_defeated_final_boss }
            ELSE IF t.splits # "None"
              THEN Try(check_split_event(t), LAMBDA u : IF u.ret THEN split(u) ELSE { Ok(u) })
              ELSE IF t.last_room # current_room THEN split(t) ELSE { Ok(t) }
    IN  Try(done, LAMBDA u : { Ok(u) })
    : current_room \in Rooms }

\* mutant: the run is not finished by the final split
update_progress_not_finished(s) ==
  UNION {
    LET t == Mark(Obs(s, "game", "room", << current_room >>), "match")
        done ==
          IF t.last_room = FINAL_BOSS_ROOM
            THEN UNION { IF defeated
                           THEN Try(split(Obs(t, "game", "boss", << TRUE >>)),
                                    LAMBDA u : { Ok(u) })
                           ELSE { Ok(Obs(t, "game", "boss", << FALSE >>)) }
                         : defeated \in has_defeated_final_boss }
            ELSE IF t.splits # "None"
              THEN Try(check_split_event(t), LAMBDA u : IF u.ret THEN split(u) ELSE { Ok(u) })
              ELSE IF t.last_room # current_room THEN split(t) ELSE { Ok(t) }
    IN  Try(done, LAMBDA u : { Ok([u EXCEPT !.last_room = current_room]) })
    : current_room \in Rooms }

\* mutant: room changes are watched in the final boss room too
update_progress_final_watches_rooms(s) ==
  UNION {
    LET t == Mark(Obs(s, "game", "room", << current_room >>), "match")
        done ==
          IF t.last_room = FINAL_BOSS_ROOM
            THEN UNION { IF defeated
                           THEN Try(split(Obs(t, "game", "boss", << TRUE >>)),
                                    LAMBDA u : { Ok([u EXCEPT !.run_state = "Finished"]) })
                           ELSE IF t.last_room # current_room
                             THEN split(Obs(t, "game", "boss", << FALSE >>))
                             ELSE { Ok(Obs(t, "game", "boss", << FALSE >>)) }
                         : defeated \in has_defeated_final_boss }
            ELSE IF t.splits # "None"
              THEN Try(check_split_event(t), LAMBDA u : IF u.ret THEN split(u) ELSE { Ok(u) })
              ELSE IF t.last_room # current_room THEN split(t) ELSE { Ok(t) }
    IN  Try(done, LAMBDA u : { Ok([u EXCEPT !.last_room = current_room]) })
    : current_room \in Rooms }

\* lines 465-488: the run is active, check for player progression
update_progress(s) ==
  UNION {
    LET t == Mark(Obs(s, "game", "room", << current_room >>), "match")
        done ==
          IF t.last_room = FINAL_BOSS_ROOM
            THEN UNION { IF defeated
                           THEN Try(split(Obs(t, "game", "boss", << TRUE >>)),
                                    LAMBDA u : { Ok([u EXCEPT !.run_state = "Finished"]) })
                           ELSE { Ok(Obs(t, "game", "boss", << FALSE >>)) }
                         : defeated \in has_defeated_final_boss }
            ELSE IF t.splits # "None"
              THEN Try(check_split_event(t), LAMBDA u : IF u.ret THEN split(u) ELSE { Ok(u) })
              ELSE IF t.last_room # current_room THEN split(t) ELSE { Ok(t) }
    IN  Try(done, LAMBDA u : { Ok([u EXCEPT !.last_room = current_room]) })
    : current_room \in Rooms }

\* mutant: reaching the second room splits with a route table too
update_run_state_intro_splits(s) ==
  UNION {
    LET t == Mark([Obs(s, "game", "menu", << menu_state >>)
                     EXCEPT !.obs.run_state = s.run_state], "run_state")
    IN  IF is_active(t.run_state) /\ is_at_main_menu(menu_state)
          THEN reset(t)
          ELSE IF ~is_active(t.run_state) /\ is_new_game_start(menu_state)
            THEN Try(IF t.run_state = "Finished" THEN reset(t) ELSE { Ok(t) },
                     LAMBDA u : split(u))
            ELSE IF t.run_state = "Intro"
              THEN UNION {
                     LET u == Obs(t, "game", "room", << current_room >>)
                     IN  IF current_room = SECOND_ROOM
                           THEN LET v == [u EXCEPT !.run_state = "Active",
                                                   !.last_room = SECOND_ROOM]
                                IN  split(v)
                           ELSE { Ok(u) }
                     : current_room \in Rooms }
              ELSE IF t.run_state # "Active"
                THEN { Ok(t) }
                ELSE update_progress(t)
    : menu_state \in MenuStates }

\* lines 431-463: the run state follows the menu and the second room
update_run_state(s) ==
  UNION {
    LET t == Mark([Obs(s, "game", "menu", << menu_state >>)
                     EXCEPT !.obs.run_state = s.run_state], "run_state")
    IN  IF is_active(t.run_state) /\ is_at_main_menu(menu_state)
          THEN reset(t)
          ELSE IF ~is_active(t.run_state) /\ is_new_game_start(menu_state)
            THEN Try(IF t.run_state = "Finished" THEN reset(t) ELSE { Ok(t) },
                     LAMBDA u : split(u))
            ELSE IF t.run_state = "Intro"
              THEN UNION {
                     LET u == Obs(t, "game", "room", << current_room >>)
                     IN  IF current_room = SECOND_ROOM
                           THEN LET v == [u EXCEPT !.run_state = "Active",
                                                   !.last_room = SECOND_ROOM]
                                IN  IF v.splits = "None" THEN split(v) ELSE { Ok(v) }
                           ELSE { Ok(u) }
                     : current_room \in Rooms }
              ELSE IF t.run_state # "Active"
                THEN { Ok(t) }
                ELSE update_progress(t)
    : menu_state \in MenuStates }

\* mutant: the tick goes on after the reset for a changed game
update_game_changed_goes_on(s) ==
  LET k == should_check(s.game_keep_alive, GAME_KEEP_ALIVE)
      t == [s EXCEPT !.game_keep_alive = k.remaining]
  IN  IF k.check
        THEN UNION { CASE check = "Same" -> update_run_state(Mark(t, "game"))
                       [] check = "Changed" ->
                            Try(reset(Mark(Mark(t, "game"), "game_changed")),
                                LAMBDA u : update_run_state(u))
                       [] check = "Unknown" ->
                            conn_fail(Mark(Mark(t, "game"), "game_gone"), "GamePending")
                     : check \in check_version }
        ELSE update_run_state(t)

\* lines 414-429: the game keep-alive
update_game(s) ==
  LET k == should_check(s.game_keep_alive, GAME_KEEP_ALIVE)
      t == [s EXCEPT !.game_keep_alive = k.remaining]
  IN  IF k.check
        THEN UNION { CASE check = "Same" -> update_run_state(Mark(t, "game"))
                       [] check = "Changed" -> reset(Mark(Mark(t, "game"), "game_changed"))
                       [] check = "Unknown" ->
                            conn_fail(Mark(Mark(t, "game"), "game_gone"), "GamePending")
                     : check \in check_version }
        ELSE update_run_state(t)

\* mutant: the tick goes on after the emulator was found gone
update_emulator_goes_on(s) ==
  LET k == should_check(s.emulator_keep_alive, EMULATOR_KEEP_ALIVE)
      t == [s EXCEPT !.emulator_keep_alive = k.remaining]
  IN  IF k.check
        THEN UNION { IF alive
                       THEN update_game(Mark(t, "emulator"))
                       ELSE Try(conn_fail(Mark(Mark(t, "emulator"), "emulator_gone"),
                                          "EmulatorPending"),
                                LAMBDA u : update_game(u))
                     : alive \in check_emulator }
        ELSE update_game(t)

\* lines 407-412: the emulator keep-alive
update_emulator(s) ==
  LET k == should_check(s.emulator_keep_alive, EMULATOR_KEEP_ALIVE)
      t == [s EXCEPT !.emulator_keep_alive = k.remaining]
  IN  IF k.check
        THEN UNION { IF alive
                       THEN update_game(Mark(t, "emulator"))
                       ELSE conn_fail(Mark(Mark(t, "emulator"), "emulator_gone"),
                                      "EmulatorPending")
                     : alive \in check_emulator }
        ELSE update_game(t)

\* mutant: the tick goes on after the timer connection was found lost
update_splits_goes_on(s) ==
  LET k == should_check(s.live_split_keep_alive, LIVE_SPLIT_KEEP_ALIVE)
      t == [s EXCEPT !.live_split_keep_alive = k.remaining]
  IN  IF k.check
        THEN UNION { IF r.res = "Err" /\ ~r.is_connected
                       THEN Try(conn_fail(Mark(r, "live_split_gone"), "LiveSplitPending"),
                                LAMBDA u : update_emulator(u))
                       ELSE update_emulator(Ok(r))
                     : r \in sync_with_live_split(Mark(t, "sync")) }
        ELSE update_emulator(t)

update_splits(s) ==
  LET k == should_check(s.live_split_keep_alive, LIVE_SPLIT_KEEP_ALIVE)
      t == [s EXCEPT !.live_split_keep_alive = k.remaining]
  IN  IF k.check
        THEN UNION { IF r.res = "Err" /\ ~r.is_connected
                       THEN conn_fail(Mark(r, "live_split_gone"), "LiveSplitPending")
                       ELSE update_emulator(Ok(r))
                     : r \in sync_with_live_split(Mark(t, "sync")) }
        ELSE update_emulator(t)

(***************************************************************************)
(* The state machine                                                       *)
(***************************************************************************)
NoObs ==
  [phase |-> "NotRead", index |-> << >>, published |-> "NotRead", menu |-> << >>,
   run_state |-> "NotRead",
   room |-> << >>, boss |-> << >>, event_index |-> << >>, event_room |-> << >>,
   event_flag |-> << >>, event_item |-> << >>]

\* the AutoSplitter at the start of a loop iteration
Begin ==
  [connection_state |-> connection_state, run_state |-> run_state, last_room |-> last_room,
   live_split_keep_alive |-> live_split_keep_alive,
   emulator_keep_alive |-> emulator_keep_alive, game_keep_alive |-> game_keep_alive,
   is_connected |-> is_connected,
   requested_split_type |-> requested_split_type,
   effective_split_type |-> effective_split_type,
   last_reported_split_type |-> last_reported_split_type, splits |-> splits,
   watch |-> watch, trace |-> << >>, obs |-> NoObs, recon |-> NoRecon, res |-> "Ok", line |-> "", ret |-> FALSE]

\* the iteration ended in o; an Err leaves update through its ? operator
Install(o) ==
  /\ connection_state' = o.connection_state
  /\ run_state' = o.run_state
  /\ last_room' = o.last_room
  /\ live_split_keep_alive' = o.live_split_keep_alive
  /\ emulator_keep_alive' = o.emulator_keep_alive
  /\ game_keep_alive' = o.game_keep_alive
  /\ is_connected' = o.is_connected
  /\ requested_split_type' = o.requested_split_type
  /\ effective_split_type' = o.effective_split_type
  /\ last_reported_split_type' = o.last_reported_split_type
  /\ splits' = o.splits
  /\ running' = (o.res = "Ok")
  /\ trace' = o.trace
  /\ obs' = o.obs
  /\ recon' = o.recon
  /\ watch' = watch
  /\ counter' = counter
  /\ client' = client
  /\ source' = source

\* AutoSplitter::create has waited for the timer, the emulator and a game
Created ==
  /\ connection_state = "Connected"
  /\ run_state = "NotStarted"
  /\ last_room = << 0, 0 >>
  /\ live_split_keep_alive = 0
  /\ emulator_keep_alive = EMULATOR_KEEP_ALIVE
  /\ game_keep_alive = GAME_KEEP_ALIVE
  /\ is_connected = TRUE
  /\ requested_split_type \in RequestedTypes
  /\ effective_split_type = "None"
  /\ last_reported_split_type = "None"
  /\ splits = "None"
  /\ running = TRUE
  /\ trace = << >>
  /\ obs = NoObs
  /\ recon = NoRecon

\* no KeepAliveCounter on its own
NoCounter == [period |-> 0, remaining |-> 0, trigger |-> FALSE, calls |-> 0, last |-> FALSE]

\* no LiveSplit client on its own
NoClient ==
  [is_connected |-> TRUE, was_connected |-> TRUE, op |-> "none", io |-> << >>,
   attempts |-> 0, res |-> "Ok", calls |-> 0]

\* no game-state source on its own
NoSource == [op |-> "none"]

Init ==
  Created /\ watch = "timer" /\ counter = NoCounter /\ client = NoClient /\ source = NoSource

InitGame ==
  Created /\ watch = "game" /\ counter = NoCounter /\ client = NoClient /\ source = NoSource

\* KeepAliveCounter::new(period), with or without with_trigger_on_start
InitCounter ==
  /\ Created
  /\ watch = "timer"
  /\ \E period \in 0 .. MaxPeriod : \E trigger \in BOOLEAN :
       LET c == IF trigger THEN with_trigger_on_start(KeepAliveCounter_new(period))
                ELSE KeepAliveCounter_new(period)
       IN  counter = [period |-> c.period, remaining |-> c.remaining, trigger |-> trigger,
                      calls |-> 0, last |-> FALSE]
  /\ client = NoClient
  /\ source = NoSource

\* one call of should_check on the counter; calls counts them, last is what
\* the call returned
ShouldCheck ==
  /\ counter.calls < MaxCalls
  /\ counter' = LET k == should_check(counter.remaining, counter.period)
                IN  [counter EXCEPT !.remaining = k.remaining, !.calls = @ + 1,
                                    !.last = k.check]
  /\ UNCHANGED << connection_state, run_state, last_room, live_split_keep_alive,
                  emulator_keep_alive, game_keep_alive, is_connected,
                  requested_split_type, effective_split_type, last_reported_split_type,
                  splits, running, trace, obs, recon, watch, client, source >>

\* LiveSplit::create has connected
InitClient ==
  Created /\ watch = "timer" /\ counter = NoCounter /\ client = NoClient /\ source = NoSource

\* the outcomes the socket gives to the attempts of one call
IoSequences(connected) ==
  [1 .. MAX_RETRIES -> IF connected THEN { "ok", "fatal", "other" } ELSE { "fatal" }]

\* one call on the client: op, the outcomes io it met, what it returned in r
ClientCall(op, io, r) ==
  /\ client.calls < MaxClientCalls
  /\ client' = [is_connected |-> r.is_connected, was_connected |-> client.is_connected,
                op |-> op, io |-> io, attempts |-> r.attempts, res |-> r.res,
                calls |-> client.calls + 1]
  /\ UNCHANGED << connection_state, run_state, last_room, live_split_keep_alive,
                  emulator_keep_alive, game_keep_alive, is_connected,
                  requested_split_type, effective_split_type, last_reported_split_type,
                  splits, running, trace, obs, recon, watch, counter, source >>

ClientSend ==
  \E io \in IoSequences(client.is_connected) :
    ClientCall("send", io, send_io(client.is_connected, io, 1))

\* the code calls recv only after a send that returned Ok
ClientRecv ==
  /\ client.op = "send" /\ client.res = "Ok"
  /\ \E io \in IoSequences(client.is_connected) :
       ClientCall("recv", io, recv_io(client.is_connected, io, 1))

ClientTryReconnect ==
  \E r \in try_reconnect([is_connected |-> client.is_connected, res |-> "Ok"]) :
    ClientCall("try_reconnect", << >>,
               [is_connected |-> r.is_connected, res |-> r.res, attempts |-> 0])

(***************************************************************************)
(* The two game-state sources on their own: the memory-backed one          *)
(* (src/src/game.rs, src/src/game/emulator.rs) and the capture-backed one  *)
(* (src/src/game/console.rs).                                              *)
(***************************************************************************)
\* the i32 values the main-menu state can hold in memory
MenuValues == { -7, -1, 0, 1, NEW_GAME_MENU_STATE - 1, NEW_GAME_MENU_STATE,
                NEW_GAME_MENU_STATE + 1, TRAILER_MENU_STATE - 1, TRAILER_MENU_STATE,
                TRAILER_MENU_STATE + 1 }

\* Game::main_menu_state: loaded is menu_module_id = main_menu_module_id
main_menu_state(loaded, value) == IF ~loaded THEN -1 ELSE value

\* the rooms a capture can show
ConsoleRooms == { << 0, 0 >>, SECOND_ROOM, FINAL_BOSS_ROOM }

\* ConsoleGame::new; links is whether current_links holds a room
ConsoleGame_new ==
  [current |-> << 0, 0 >>, links |-> FALSE, has_defeated_final_boss |-> FALSE,
   is_at_main_menu |-> FALSE, is_new_game_start |-> FALSE, res |-> "Ok"]

is_in_final_boss_room(c) == c.current = FINAL_BOSS_ROOM

\* ConsoleGame::set_room: entry is whether bg_map has links for the room, load
\* is how the loading of their images goes
ConsoleGame_set_room(c, room, entry, load) ==
  IF room = c.current /\ c.links THEN Ok(c)
  ELSE LET d == [c EXCEPT !.current = room, !.has_defeated_final_boss = FALSE,
                          !.is_at_main_menu = FALSE, !.is_new_game_start = FALSE,
                          !.links = FALSE]
       IN  IF ~entry THEN (IF is_in_final_boss_room(d) THEN Ok(d) ELSE Err(d))
           ELSE CASE load = "ok" -> Ok([d EXCEPT !.links = TRUE])
                  [] load = "failed_first" -> Err(d)
                  [] load = "failed_later" -> Err([d EXCEPT !.links = TRUE])

\* mutant: the main menu stays reported when the new game starts
new_game_start_keeps_menu(c) == [c EXCEPT !.is_new_game_start = TRUE]

\* check_frame: the fade-out at the main menu was seen
new_game_start(c) == [c EXCEPT !.is_at_main_menu = FALSE, !.is_new_game_start = TRUE]

\* what one frame shows: whether it could be read, the linked room it matches
\* best, whether it is a fade to black, whether it matches the main menu
Frames ==
  [read : BOOLEAN, best_match : { << >> } \cup { << r >> : r \in ConsoleRooms },
   entry : BOOLEAN, load : { "ok", "failed_first", "failed_later" },
   fade : { "Err", "true", "false" }, main_menu : { "Err", "true", "false" }]

\* ConsoleGame::check_frame
check_frame(c, frame) ==
  IF ~frame.read THEN Err(c)
  ELSE IF c.links /\ frame.best_match # << >>
    THEN ConsoleGame_set_room(c, frame.best_match[1], frame.entry, frame.load)
  ELSE IF is_in_final_boss_room(c) /\ ~c.has_defeated_final_boss /\ frame.fade # "false"
    THEN (IF frame.fade = "Err" THEN Err(c)
          ELSE Ok([c EXCEPT !.has_defeated_final_boss = TRUE]))
  ELSE IF c.is_at_main_menu /\ ~c.is_new_game_start /\ frame.fade # "false"
    THEN (IF frame.fade = "Err" THEN Err(c) ELSE Ok(new_game_start(c)))
  ELSE IF ~c.is_at_main_menu /\ frame.main_menu # "false"
    THEN (IF frame.main_menu = "Err" THEN Err(c)
          ELSE LET d == ConsoleGame_set_room(c, << 0, 0 >>, frame.entry, frame.load)
               IN  IF d.res = "Err" THEN d
                   ELSE Ok([d EXCEPT !.is_at_main_menu = TRUE,
                                     !.is_new_game_start = FALSE]))
  ELSE Ok(c)

\* a memory-backed source and a capture-backed source, nothing read yet
InitSource ==
  /\ Created /\ watch = "game" /\ counter = NoCounter /\ client = NoClient
  /\ source = [op |-> "none", console |-> ConsoleGame_new,
               loaded |-> FALSE, menu_state |-> -1,
               at_main_menu |-> FALSE, new_game_start |-> FALSE]

\* the memory-backed source is asked for its two menu flags
ReadMenu ==
  /\ \E loaded \in BOOLEAN : \E value \in MenuValues :
       LET state == main_menu_state(loaded, value)
       IN  source' = [source EXCEPT !.op = "menu", !.loaded = loaded,
                                    !.menu_state = state,
                                    !.at_main_menu = is_at_main_menu(state),
                                    !.new_game_start = is_new_game_start(state)]
  /\ UNCHANGED << connection_state, run_state, last_room, live_split_keep_alive,
                  emulator_keep_alive, game_keep_alive, is_connected,
                  requested_split_type, effective_split_type, last_reported_split_type,
                  splits, running, trace, obs, recon, watch, counter, client >>

\* Game::update of the capture-backed source: one frame is checked
CheckFrame ==
  /\ \E frame \in Frames :
       source' = [source EXCEPT !.op = "check_frame",
                                !.console = check_frame(source.console, frame)]
  /\ UNCHANGED << connection_state, run_state, last_room, live_split_keep_alive,
                  emulator_keep_alive, game_keep_alive, is_connected,
                  requested_split_type, effective_split_type, last_reported_split_type,
                  splits, running, trace, obs, recon, watch, counter, client >>

\* a game version and the flag asked of it
InitFlags ==
  /\ Created /\ watch = "game" /\ counter = NoCounter /\ client = NoClient
  /\ \E v \in 1 .. Len(GAME_VERSIONS) : \E stage \in Stages :
       \E flag_index \in 0 .. MaxFlagIndex :
         source = [op |-> "none", version |-> v, stage |-> stage,
                   flag_index |-> flag_index]

\* one call of flag_bank_address; out is what it returned
FlagBankAddress ==
  /\ source.op = "none"
  /\ \E out \in flag_bank_address(GAME_VERSIONS[source.version], source.stage,
                                    source.flag_index) :
       source' = [op |-> "flag_bank_address", version |-> source.version,
                  stage |-> source.stage, flag_index |-> source.flag_index,
                  out |-> out]
  /\ UNCHANGED << connection_state, run_state, last_room, live_split_keep_alive,
                  emulator_keep_alive, game_keep_alive, is_connected,
                  requested_split_type, effective_split_type, last_reported_split_type,
                  splits, running, trace, obs, recon, watch, counter, client >>

UpdateLiveSplitPending ==
  /\ running
  /\ connection_state = "LiveSplitPending"
  /\ \E o \in wait_for_live_split(Begin) : Install(o)

UpdateEmulatorPending ==
  /\ running
  /\ connection_state = "EmulatorPending"
  /\ \E o \in wait_for_emulator(Begin) : Install(o)

UpdateGamePending ==
  /\ running
  /\ connection_state = "GamePending"
  /\ \E o \in wait_for_game(Begin) : Install(o)

UpdateConnected ==
  /\ running
  /\ connection_state = "Connected"
  /\ \E o \in update_splits(Begin) : Install(o)

Next ==
  \/ UpdateLiveSplitPending
  \/ UpdateEmulatorPending
  \/ UpdateGamePending
  \/ UpdateConnected

\* the history variables record the timer's side
Spec == Init /\ [][Next]_vars

\* the history variables record the game's side
SpecGame == InitGame /\ [][Next]_vars

\* a KeepAliveCounter that nothing resets from outside
SpecCounter == InitCounter /\ [][ShouldCheck]_vars

\* the calls of the LiveSplit client, in any order the code can make them
SpecClient == InitClient /\ [][ClientSend \/ ClientRecv \/ ClientTryReconnect]_vars

\* the flag addresses of the game versions
SpecFlags == InitFlags /\ [][FlagBankAddress]_vars

\* the menu flags of the two game-state sources
SpecSource == InitSource /\ [][ReadMenu \/ CheckFrame]_vars

(***************************************************************************)
(* Reading the history                                                     *)
(***************************************************************************)
Has(tr, e) == \E i \in 1 .. Len(tr) : tr[i] = e

\* f occurs in tr somewhere after an occurrence of e
After(tr, e, f) == \E i \in 1 .. Len(tr) : \E j \in (i + 1) .. Len(tr) : tr[i] = e /\ tr[j] = f

\* the part of the trace the reconciliation r wrote
Segment(tr, r) == SubSeq(tr, r.from + 1, r.to)

Commands == { "split", "reset" }
Steps == << "sync", "emulator", "game", "run_state", "match" >>
Gone == { "live_split_gone", "emulator_gone", "game_gone" }

\* the run state a sync gives for the phase line and the index it read, from
\* the run state before it; a sync that read no phase, no phase name or (where
\* it asks for one) no index leaves the run state as it was
Mirrored(state, phase, index) ==
  CASE phase = "NotRunning" -> "NotStarted"
    [] phase = "Ended" -> "Finished"
    [] phase \in { "Running", "Paused" } ->
         IF state = "Active" THEN "Active"
         ELSE IF index = << >> THEN state
         ELSE IF index[1] = 0 THEN "Intro" ELSE "Active"
    [] OTHER -> state

(***************************************************************************)
(* C1: no failure of the timer client or of the state source ends the      *)
(* polling loop: after every tick the loop is still running.               *)
(* The code returns every Err of a handler from update with the ? operator.*)
(***************************************************************************)
C1_LoopKeepsRunning == running

(***************************************************************************)
(* C2: whenever RunState is Finished, split() returns Ok, sends no command *)
(* and changes nothing (RunState and last_room included).                  *)
(***************************************************************************)
C2_SplitIsNoOpWhenFinished == run_state = "Finished" => split(Begin) = { Ok(Begin) }

C2_Witness == running /\ run_state = "Finished" /\ split(Begin) = { Ok(Begin) }

(***************************************************************************)
(* C3 as stated: the tick that detects the loss of the timer connection    *)
(* sets ConnectionState to LiveSplitPending, sends no reset and leaves     *)
(* RunState unchanged.                                                     *)
(***************************************************************************)
C3_LossTickLeavesRunState ==
  [][Has(trace', "live_split_gone") =>
       /\ connection_state' = "LiveSplitPending"
       /\ ~Has(trace', "reset")
       /\ run_state' = run_state]_vars

(***************************************************************************)
(* C3 amended: no reset command is sent once the client is marked          *)
(* disconnected; the tick that detects the loss sets ConnectionState to    *)
(* LiveSplitPending with the client disconnected, and leaves RunState as   *)
(* the failed sync left it: mirrored from the phase (and index) the sync   *)
(* had read before it failed, unchanged when it had read none.             *)
(***************************************************************************)
C3_NoResetOnLostConnection ==
  [][/\ ~After(trace', "lost", "reset")
     /\ Has(trace', "live_split_gone") =>
          /\ connection_state' = "LiveSplitPending"
          /\ ~is_connected'
          /\ run_state' = Mirrored(run_state, obs'.phase, obs'.index)]_vars

C3_Witness ==
  /\ Has(trace, "live_split_gone")
  /\ connection_state = "LiveSplitPending"
  /\ is_started(run_state)
  /\ ~Has(trace, "reset")

C5_LeavesOnlyAfterResync ==
  [][connection_state = "LiveSplitPending" /\ connection_state' # "LiveSplitPending" =>
       /\ TimerPhase_try_from_raw(obs'.phase) # "None"
       /\ run_state' = Mirrored(run_state, obs'.phase, obs'.index)
       /\ recon'.done]_vars

(***************************************************************************)
(* C5 amended: ConnectionState leaves LiveSplitPending only in a tick that *)
(* reconnected and attempted the resynchronization, and only with the      *)
(* client connected; it goes to EmulatorPending, never straight to         *)
(* Connected.  Either the resynchronization succeeded (valid phase,        *)
(* RunState mirrored, split type reconciled, last-seen published type      *)
(* updated) or it failed on a reply it could not read while the connection *)
(* stayed up, which is logged and otherwise ignored.                       *)
(***************************************************************************)
C5_LeavesAfterResyncAttempt ==
  [][connection_state = "LiveSplitPending" /\ connection_state' # "LiveSplitPending" =>
       /\ connection_state' = "EmulatorPending"
       /\ is_connected'
       /\ trace' # << >> /\ trace'[1] = "sync"
       /\ live_split_keep_alive' = LIVE_SPLIT_KEEP_ALIVE
       /\ \/ Has(trace', "warn_sync_failed")
          \/ /\ TimerPhase_try_from_raw(obs'.phase) # "None"
             /\ run_state' = recon'.run_state_after
             /\ recon'.run_state = Mirrored(run_state, obs'.phase, obs'.index)
             /\ recon'.done
             /\ effective_split_type' # "None"
             /\ last_reported_split_type' = SplitType_try_from(obs'.published)]_vars

C5_Witness ==
  /\ connection_state = "EmulatorPending"
  /\ trace # << >> /\ trace[1] = "sync"
  /\ recon.done
  /\ obs.phase = "Running" /\ run_state = "Active"

\* the place of a step in the order of update_splits, 0 for what is no step
StepRank(e) ==
  IF \E k \in 1 .. Len(Steps) : Steps[k] = e
    THEN CHOOSE k \in 1 .. Len(Steps) : Steps[k] = e
    ELSE 0

(***************************************************************************)
(* C6: the steps of a tick run in the order timer sync, emulator           *)
(* keep-alive, game keep-alive, run-state advancement, event matching,     *)
(* each at most once; once a step has found its dependency unhealthy, no   *)
(* later step runs, and the tick emits no split at all.                    *)
(***************************************************************************)
C6_StepsInOrderAndShortCircuit ==
  \A i \in 1 .. Len(trace) :
    /\ \A j \in (i + 1) .. Len(trace) :
         /\ StepRank(trace[i]) > 0 /\ StepRank(trace[j]) > 0 =>
              StepRank(trace[i]) < StepRank(trace[j])
         /\ trace[i] \in Gone => StepRank(trace[j]) = 0
    /\ trace[i] \in Gone => ~Has(trace, "split")

C6_Witness ==
  /\ Has(trace, "sync") /\ Has(trace, "emulator") /\ Has(trace, "game")
  /\ Has(trace, "game_gone")
  /\ ~Has(trace, "run_state") /\ ~Has(trace, "match")
  /\ connection_state = "GamePending"

(***************************************************************************)
(* C7 as stated: no split and no reset command is sent in a tick after     *)
(* the tick has decided that the timer, the emulator or the game is        *)
(* unhealthy.                                                              *)
(***************************************************************************)
C7_NoCommandAfterUnhealthy ==
  \A i \in 1 .. Len(trace) : \A j \in (i + 1) .. Len(trace) :
    trace[i] \in Gone => trace[j] \notin Commands

(***************************************************************************)
(* C7 amended: after a tick has decided that a dependency is unhealthy it  *)
(* sends no split; after it has decided that the timer is unhealthy, or    *)
(* has marked the client disconnected, it sends no command at all; after   *)
(* the emulator or the game was found unhealthy it sends at most one       *)
(* command, the reset of conn_fail.                                        *)
(***************************************************************************)
C7_OnlyTheResetAfterSourceLoss ==
  \A i \in 1 .. Len(trace) :
    /\ trace[i] \in Gone =>
         /\ \A j \in (i + 1) .. Len(trace) : trace[j] # "split"
         /\ Cardinality({ j \in (i + 1) .. Len(trace) : trace[j] = "reset" }) <= 1
    /\ trace[i] \in { "live_split_gone", "lost" } =>
         \A j \in (i + 1) .. Len(trace) : trace[j] \notin Commands

C7_Witness ==
  \E i \in 1 .. Len(trace) - 1 : trace[i] = "game_gone" /\ trace[i + 1] = "reset"

\* the reconciliation of the last tick took the arm (None, Some(old), Some(new))
\* with old # new
Rule3 ==
  /\ recon.ran
  /\ recon.requested = "None" /\ recon.effective # "None" /\ recon.live # "None"
  /\ recon.live # recon.effective

(***************************************************************************)
(* C8 as stated: with no user-requested type and an effective type set, a  *)
(* published type that differs from the effective one is adopted and a     *)
(* reset command is always emitted by that reconciliation.                 *)
(***************************************************************************)
C8_ChangedTypeSendsReset == Rule3 => Has(Segment(trace, recon), "reset")

(***************************************************************************)
(* C8 amended: that reconciliation adopts the published type (and its      *)
(* route table) and calls reset(): a reset command is emitted exactly when *)
(* RunState, as just mirrored from the timer's phase, is not NotStarted;   *)
(* when the reconciliation completes RunState is NotStarted.               *)
(***************************************************************************)
C8_ChangedTypeResetsARun ==
  Rule3 =>
    /\ effective_split_type = recon.live
    /\ splits = SplitType_splits(recon.live)
    /\ Has(Segment(trace, recon), "reset") <=> is_started(recon.run_state)
    /\ recon.done => recon.run_state_after = "NotStarted"
    /\ recon.done => last_reported_split_type = recon.live

C8_Witness ==
  /\ Rule3
  /\ recon.done
  /\ Has(Segment(trace, recon), "reset")
  /\ recon.run_state = "Active"

(***************************************************************************)
(* C9: with no user-requested type and no effective type yet, the          *)
(* reconciliation sets the effective type to the published type when a     *)
(* recognized one is published ("key-events" gives the key-events route    *)
(* table) and to all-doors, with no route table, when none is; it emits no *)
(* command and leaves RunState as it was.                                  *)
(***************************************************************************)
C9_FirstTypeWithoutRequest ==
  recon.ran /\ recon.requested = "None" /\ recon.effective = "None" =>
    /\ recon.done
    /\ recon.live # "None" =>
         effective_split_type = recon.live /\ splits = SplitType_splits(recon.live)
    /\ recon.live = "None" => effective_split_type = "AllDoors" /\ splits = "None"
    /\ obs.published = "key-events" =>
         /\ effective_split_type = "KeyEvents"
         /\ Table(splits) = KEY_EVENT_SPLITS
    /\ obs.published = "RouteDoors" => Table(splits) = DOOR_SPLITS
    /\ \A k \in 1 .. Len(Segment(trace, recon)) : Segment(trace, recon)[k] \notin Commands
    /\ recon.run_state_after = recon.run_state

C9_Witness ==
  /\ recon.ran /\ recon.requested = "None" /\ recon.effective = "None"
  /\ obs.published = "key-events"
  /\ splits = "KEY_EVENT_SPLITS"

(***************************************************************************)
(* C10: with a user-requested type and no effective type yet, the          *)
(* reconciliation sets the effective type to the request whatever is       *)
(* published; when the published type differs, the warning is its only     *)
(* other effect: no command is emitted and RunState is unchanged.          *)
(***************************************************************************)
C10_FirstTypeWithRequest ==
  recon.ran /\ recon.requested # "None" /\ recon.effective = "None" =>
    /\ recon.done
    /\ effective_split_type = recon.requested
    /\ splits = SplitType_splits(recon.requested)
    /\ recon.run_state_after = recon.run_state
    /\ \A k \in 1 .. Len(Segment(trace, recon)) : Segment(trace, recon)[k] \notin Commands
    /\ Has(Segment(trace, recon), "warn_user_choice") <=>
         (recon.live # "None" /\ recon.live # recon.requested)
    /\ recon.live # "None" /\ recon.live # recon.requested =>
         Segment(trace, recon) = << "warn_user_choice" >>

C10_Witness ==
  /\ recon.ran /\ recon.requested = "KeyEvents" /\ recon.effective = "None"
  /\ recon.live = "RouteDoors"
  /\ effective_split_type = "KeyEvents"

(***************************************************************************)
(* C11: with a user-requested type, once the effective type is set it is   *)
(* the requested type (with its route table) in every later state,         *)
(* whatever the timer publishes; a reconciliation with a request emits no  *)
(* command, leaves RunState as it was and only warns: about a newly        *)
(* published type that is not the requested one, or about a removed one.   *)
(***************************************************************************)
C11_RequestedTypeIsKept ==
  /\ requested_split_type # "None" /\ effective_split_type # "None" =>
       /\ effective_split_type = requested_split_type
       /\ splits = SplitType_splits(requested_split_type)
  /\ recon.ran /\ recon.requested # "None" =>
       /\ recon.done
       /\ recon.run_state_after = recon.run_state
       /\ \A k \in 1 .. Len(Segment(trace, recon)) : Segment(trace, recon)[k] \notin Commands
       /\ recon.effective # "None" /\ recon.live # "None" =>
            (Has(Segment(trace, recon), "warn_user_kept") <=>
               (recon.live # recon.last_reported /\ recon.live # recon.requested))

C11_Witness ==
  /\ recon.ran /\ recon.requested = "KeyEvents" /\ recon.effective = "KeyEvents"
  /\ recon.live = "RouteDoors"
  /\ Has(Segment(trace, recon), "warn_user_kept")
  /\ effective_split_type = "KeyEvents" /\ splits = "KEY_EVENT_SPLITS"

(***************************************************************************)
(* C12 as stated: a synchronization that reads the phase Ended ends with   *)
(* RunState Finished, whatever RunState was before.                        *)
(***************************************************************************)
C12_EndedSyncEndsFinished ==
  obs.phase = "Ended" /\ recon.ran => recon.run_state_after = "Finished"

(***************************************************************************)
(* C12 amended: a synchronization that reads the phase Ended sets RunState *)
(* to Finished, whatever it was before, and hands that to the split-type   *)
(* reconciliation; it ends with RunState Finished unless the               *)
(* reconciliation adopted a changed published type (no request, effective  *)
(* type set) and its reset went through, which leaves NotStarted.  Where   *)
(* the published type could not be read, RunState is Finished until a      *)
(* later step of the tick sends a command.                                 *)
(***************************************************************************)
C12_EndedSyncFinishesUnlessReset ==
  obs.phase = "Ended" =>
    /\ recon.ran =>
         /\ recon.run_state = "Finished"
         /\ recon.run_state_after =
              IF Has(Segment(trace, recon), "reset") /\ recon.done THEN "NotStarted"
              ELSE "Finished"
         /\ Has(Segment(trace, recon), "reset") => Rule3
    /\ ~recon.ran /\ ~Has(trace, "reset") /\ ~Has(trace, "split") => run_state = "Finished"

C12_Witness ==
  /\ obs.phase = "Ended"
  /\ recon.done /\ recon.run_state = "Finished" /\ recon.run_state_after = "Finished"
  /\ trace = << "sync", "warn_default" >>
  /\ connection_state = "EmulatorPending"
  /\ run_state = "Finished"

(***************************************************************************)
(* C13: every step that takes RunState into Intro sets last_room to the    *)
(* sentinel (0, 0).  The code does so in split() only; a synchronization   *)
(* that mirrors a running timer at split index 0 enters Intro and leaves   *)
(* last_room as it was.                                                    *)
(***************************************************************************)
C13_IntoIntroResetsLastRoom ==
  [][run_state # "Intro" /\ run_state' = "Intro" => last_room' = << 0, 0 >>]_vars

\* how often e occurs in tr
Count(tr, e) == Cardinality({ i \in 1 .. Len(tr) : tr[i] = e })

(***************************************************************************)
(* C14 as stated: with no route table, RunState Active and last_room       *)
(* different from the current location, the tick (one that reaches event   *)
(* matching and ends without an error) emits exactly one split and sets    *)
(* last_room to the current location.                                      *)
(***************************************************************************)
C14_RoomChangeSplits ==
  [][/\ Has(trace', "match") /\ splits' = "None"
     /\ obs'.room[1] # last_room
     /\ running'
     => Count(trace', "split") = 1 /\ last_room' = obs'.room[1]]_vars

(***************************************************************************)
(* C14 amended: with no route table and RunState Active at event matching, *)
(* if last_room is not the final-encounter location the tick emits exactly *)
(* one split when the current location differs from last_room and none     *)
(* when it does not; if last_room is the final-encounter location, room    *)
(* changes are not watched and the tick splits exactly when the final      *)
(* encounter reads defeated.  In both cases last_room becomes the current  *)
(* location, unless the split command failed, which leaves it as it was.   *)
(***************************************************************************)
C14_RoomChangeSplitsOutsideFinalRoom ==
  [][Has(trace', "match") /\ splits' = "None" =>
       /\ last_room # FINAL_BOSS_ROOM =>
            /\ obs'.boss = << >>
            /\ Count(trace', "split") = IF obs'.room[1] # last_room THEN 1 ELSE 0
       /\ last_room = FINAL_BOSS_ROOM =>
            Count(trace', "split") = IF obs'.boss = << TRUE >> THEN 1 ELSE 0
       /\ last_room' = IF running' THEN obs'.room[1] ELSE last_room]_vars

C14_Witness ==
  /\ Has(trace, "match") /\ splits = "None"
  /\ obs.boss = << >>
  /\ Count(trace, "split") = 1
  /\ running /\ run_state = "Active"
  /\ last_room = << 1, 5 >> /\ obs.room = << << 1, 5 >> >>

\* the event the last tick looked up in the route table, << >> if none
LookedUp ==
  IF obs.event_index = << >> \/ splits = "None" THEN << >>
  ELSE IF obs.event_index[1] < 0 \/ obs.event_index[1] >= Len(Table(splits)) THEN << >>
  ELSE << Table(splits)[obs.event_index[1] + 1] >>

\* the event the last tick looked up is satisfied by what the tick read
Satisfied ==
  /\ LookedUp # << >>
  /\ LET event == LookedUp[1]
     IN  CASE event.kind = "Room" -> obs.event_room = << event.a >>
           [] event.kind = "Room2" -> obs.event_room \in { << event.a >>, << event.b >> }
           [] event.kind = "Flag" -> obs.event_flag = << TRUE >>
           [] event.kind = "Item" -> obs.event_item = << TRUE >>

(***************************************************************************)
(* C15 as stated: with a route table active and RunState Active, a tick    *)
(* that reaches event matching emits a split if and only if the event at   *)
(* the timer's split index is satisfied by the game state it read.         *)
(***************************************************************************)
C15_SplitIffEventSatisfied ==
  Has(trace, "match") /\ splits # "None" => (Has(trace, "split") <=> Satisfied)

(***************************************************************************)
(* C15 amended: with a route table active, RunState Active and last_room   *)
(* not the final-encounter location, a tick that reaches event matching    *)
(* emits a split (one) if and only if the timer's split index is inside    *)
(* the table and the event at it is satisfied by the game state read in    *)
(* the tick.  With last_room the final-encounter location the table is not *)
(* looked up: the tick splits exactly when the final encounter reads       *)
(* defeated.                                                               *)
(***************************************************************************)
C15_SplitIffEventSatisfiedOutsideFinalRoom ==
  Has(trace, "match") /\ splits # "None" =>
    /\ Count(trace, "split") <= 1
    /\ obs.boss = << >> => (Has(trace, "split") <=> Satisfied)
    /\ obs.boss # << >> =>
         /\ obs.event_index = << >>
         /\ Has(trace, "split") <=> obs.boss = << TRUE >>

C15_Witness ==
  /\ Has(trace, "match") /\ splits = "KEY_EVENT_SPLITS"
  /\ obs.event_index = << 3 >>
  /\ LookedUp = << Item(5) >>
  /\ obs.event_item = << TRUE >>
  /\ Has(trace, "split")

(***************************************************************************)
(* C16: on a KeepAliveCounter created with period p that nothing resets    *)
(* from outside, should_check returns true on the calls p+1, 2(p+1), ...   *)
(* and on no other; with with_trigger_on_start it returns true on the      *)
(* calls 1, 1+(p+1), 1+2(p+1), ... and on no other.  A call that returns   *)
(* true leaves the countdown at p, and the countdown stays in 0 .. p.      *)
(***************************************************************************)
C16_ShouldCheckCadence ==
  /\ counter.remaining \in 0 .. counter.period
  /\ counter.calls > 0 =>
       /\ counter.last <=>
            (IF counter.trigger
               THEN (counter.calls - 1) % (counter.period + 1) = 0
               ELSE counter.calls % (counter.period + 1) = 0)
       /\ counter.last => counter.remaining = counter.period

C16_Witness ==
  /\ counter.period = 3 /\ ~counter.trigger
  /\ counter.calls = 8 /\ counter.last
  /\ counter.remaining = 3

\* the last tick reached run-state advancement and read the menu state there
AtRunStateStep == Has(trace, "run_state") /\ obs.menu # << >>

\* the part of the trace from the run-state advancement on
FromRunStateStep ==
  SubSeq(trace, CHOOSE i \in 1 .. Len(trace) : trace[i] = "run_state", Len(trace))

(***************************************************************************)
(* C17: when a tick reaches run-state advancement with RunState Intro or   *)
(* Active and the state source reports at-main-menu, it sends one reset    *)
(* command, sends no split and matches no event; RunState is NotStarted    *)
(* when the tick ends (a reset that cannot be delivered ends the tick with *)
(* an error and RunState as it was).                                       *)
(***************************************************************************)
C17_MainMenuResetsActiveRun ==
  AtRunStateStep /\ is_active(obs.run_state) /\ is_at_main_menu(obs.menu[1]) =>
    /\ Count(FromRunStateStep, "reset") = 1
    /\ ~Has(trace, "split")
    /\ ~Has(trace, "match")
    /\ run_state = IF running THEN "NotStarted" ELSE obs.run_state

C17_Witness ==
  /\ AtRunStateStep /\ obs.run_state = "Active" /\ is_at_main_menu(obs.menu[1])
  /\ Has(trace, "reset")
  /\ running /\ run_state = "NotStarted"

(***************************************************************************)
(* C18: when a tick reaches event matching with RunState Active and        *)
(* last_room the final-encounter location, and the state source reports    *)
(* the final encounter defeated, the tick sends exactly one split command  *)
(* and no reset, and RunState is Finished when it ends (a split that       *)
(* cannot be delivered ends the tick with an error and RunState Active).   *)
(***************************************************************************)
C18_FinalBossSplitFinishes ==
  obs.boss = << TRUE >> =>
    /\ Has(trace, "match")
    /\ obs.run_state = "Active"
    /\ Count(trace, "split") = 1
    /\ ~Has(trace, "reset")
    /\ run_state = IF running THEN "Finished" ELSE "Active"
    /\ running => last_room = obs.room[1]

C18_Witness ==
  /\ obs.boss = << TRUE >>
  /\ Count(trace, "split") = 1
  /\ running /\ run_state = "Finished"

(***************************************************************************)
(* C19 as stated: RunState goes from Finished to Intro only in a tick in   *)
(* which the state source reports a new run start, and that tick sends a   *)
(* reset command before the split command that starts the run.             *)
(***************************************************************************)
C19_FinishedToIntroOnlyByNewRun ==
  [][run_state = "Finished" /\ run_state' = "Intro" =>
       /\ obs'.menu # << >> /\ is_new_game_start(obs'.menu[1])
       /\ After(trace', "reset", "split")]_vars

(***************************************************************************)
(* C19 amended: RunState goes from Finished to Intro within a tick in two  *)
(* ways.  Either the state source reports a new run start at run-state     *)
(* advancement while the run is not active: the tick then sends the split  *)
(* that starts the run, preceded by a reset exactly when RunState was      *)
(* still Finished there (a synchronization of the same tick may already    *)
(* have made it NotStarted).  Or a synchronization of the tick mirrored    *)
(* the timer into Intro: the tick then sends no split, and no reset        *)
(* either unless the reconciliation of that synchronization tried one and  *)
(* lost the connection on it.                                              *)
(***************************************************************************)
C19_FinishedToIntroByNewRunOrMirror ==
  [][run_state = "Finished" /\ run_state' = "Intro" =>
       \/ /\ obs'.run_state \in { "Finished", "NotStarted" }
          /\ is_new_game_start(obs'.menu[1])
          /\ LET after == SubSeq(trace', CHOOSE i \in 1 .. Len(trace') : trace'[i] = "run_state",
                                 Len(trace'))
             IN  /\ Count(after, "split") = 1
                 /\ obs'.run_state = "Finished" <=> After(after, "reset", "split")
                 /\ obs'.run_state = "NotStarted" => Has(trace', "sync") /\ ~Has(after, "reset")
       \/ /\ obs'.run_state \in { "Intro", "NotRead" }
          /\ Has(trace', "sync")
          /\ ~Has(trace', "split")
          /\ Has(trace', "reset") => ~is_connected']_vars

C19_Witness ==
  /\ run_state = "Intro"
  /\ obs.run_state = "Finished"
  /\ obs.menu # << >> /\ is_new_game_start(obs.menu[1])
  /\ After(trace, "reset", "split")
  /\ running

C21_IntroWaitsForSecondRoom ==
  AtRunStateStep /\ obs.run_state = "Intro" =>
    /\ ~Has(trace, "match")
    /\ obs.boss = << >> /\ obs.event_index = << >>
    /\ obs.event_room = << >> /\ obs.event_flag = << >> /\ obs.event_item = << >>
    /\ (obs.room = << >>) <=> is_at_main_menu(obs.menu[1])
    /\ obs.room # << SECOND_ROOM >> =>
         /\ ~Has(trace, "split")
         /\ run_state = IF obs.room = << >> /\ running THEN "NotStarted" ELSE "Intro"
    /\ obs.room = << SECOND_ROOM >> =>
         /\ run_state = "Active"
         /\ last_room = SECOND_ROOM
         /\ Count(trace, "split") = IF splits = "None" THEN 1 ELSE 0

C21_Witness ==
  /\ AtRunStateStep /\ obs.run_state = "Intro"
  /\ obs.room = << SECOND_ROOM >>
  /\ splits = "KEY_EVENT_SPLITS"
  /\ run_state = "Active" /\ last_room = SECOND_ROOM
  /\ ~Has(trace, "split")
  /\ running

C23_IndexOutsideTableIsNoMatch ==
  obs.event_index # << >> /\ LookedUp = << >> =>
    /\ Has(trace, "match") /\ splits # "None"
    /\ obs.event_room = << >> /\ obs.event_flag = << >> /\ obs.event_item = << >>
    /\ ~Has(trace, "split")
    /\ running
    /\ run_state = obs.run_state /\ run_state = "Active"
    /\ connection_state = "Connected"
    /\ last_room = obs.room[1]

C23_Witness ==
  /\ obs.event_index = << DOOR_SPLITS_LEN >> /\ splits = "DOOR_SPLITS"
  /\ LookedUp = << >>
  /\ Has(trace, "match") /\ ~Has(trace, "split")
  /\ running /\ run_state = "Active" /\ connection_state = "Connected"

(***************************************************************************)
(* C24: in one tick at most one split command and at most one reset        *)
(* command are sent to the timer, and where both are sent the reset is     *)
(* sent before the split; so a matched event or a location change gives no *)
(* more than one split in the tick that detects it.                        *)
(***************************************************************************)
C24_OneSplitOneResetPerTick ==
  /\ Count(trace, "split") <= 1
  /\ Count(trace, "reset") <= 1
  /\ ~After(trace, "split", "reset")
  /\ Has(trace, "match") => ~Has(trace, "reset")

C24_Witness ==
  /\ Count(trace, "reset") = 1 /\ Count(trace, "split") = 1
  /\ After(trace, "reset", "split")
  /\ running /\ run_state = "Intro"

(***************************************************************************)
(* C25: when the game keep-alive finds another recognized game version     *)
(* loaded, the tick resets the run and ends there: it sends no split,      *)
(* reads no game state, does no run-state advancement and no event         *)
(* matching, and ConnectionState stays Connected.  RunState is NotStarted  *)
(* afterwards; only a reset command that cannot be delivered leaves the    *)
(* run started, and ends the tick with an error.                           *)
(***************************************************************************)
C25_ChangedGameResets ==
  Has(trace, "game_changed") =>
    /\ ~Has(trace, "split")
    /\ ~Has(trace, "run_state") /\ ~Has(trace, "match")
    /\ obs.menu = << >> /\ obs.room = << >> /\ obs.boss = << >> /\ obs.event_index = << >>
    /\ connection_state = "Connected"
    /\ Count(trace, "reset") <= 1
    /\ running => run_state = "NotStarted"
    /\ ~running => After(trace, "game_changed", "reset") /\ ~is_connected

C25_Witness ==
  /\ After(trace, "game_changed", "reset")
  /\ running /\ run_state = "NotStarted"
  /\ connection_state = "Connected"

(***************************************************************************)
(* C26 as stated: in a reconciliation with an effective type set and a     *)
(* published type that is unset or not the name of a split type, the       *)
(* effective type and the route table stay as they are, no reset is sent,  *)
(* and a warning is logged only if the last published type seen was        *)
(* present.                                                                *)
(***************************************************************************)
C26_AbsentTypeWarnsOnlyAfterPresent ==
  recon.ran /\ recon.effective # "None" /\ recon.live = "None" =>
    /\ effective_split_type = recon.effective
    /\ splits = SplitType_splits(recon.effective)
    /\ ~Has(Segment(trace, recon), "reset")
    /\ (Has(Segment(trace, recon), "warn_removed")
          \/ Has(Segment(trace, recon), "warn_unrecognized")) => recon.last_reported # "None"

(***************************************************************************)
(* C26 amended: in a reconciliation with an effective type set and a       *)
(* published type that is unset or not the name of a split type, the       *)
(* effective type and the route table stay as they are, no reset is sent   *)
(* and RunState is not changed.  The warning that the old type is kept is  *)
(* logged exactly when the last published type seen was present; a value   *)
(* that is not the name of a split type is logged as unrecognized every    *)
(* time it is read, whatever was seen before.  The last published type     *)
(* seen is absent afterwards.                                              *)
(***************************************************************************)
C26_AbsentTypeKeepsEffective ==
  recon.ran /\ recon.effective # "None" /\ recon.live = "None" =>
    /\ recon.done
    /\ effective_split_type = recon.effective
    /\ splits = SplitType_splits(recon.effective)
    /\ ~Has(Segment(trace, recon), "reset")
    /\ recon.run_state_after = recon.run_state
    /\ Has(Segment(trace, recon), "warn_removed") <=> recon.last_reported # "None"
    /\ Has(Segment(trace, recon), "warn_unrecognized") <=> obs.published # "None"
    /\ last_reported_split_type = "None"

C26_Witness ==
  /\ recon.done /\ recon.effective = "RouteDoors" /\ recon.live = "None"
  /\ recon.last_reported = "RouteDoors"
  /\ obs.published = "speedrun"
  /\ Has(Segment(trace, recon), "warn_removed")
  /\ effective_split_type = "RouteDoors" /\ splits = "DOOR_SPLITS"
  /\ last_reported_split_type = "None"

\* the Option<SplitType> get_live_split_split_type gives for the value read
Reported(published) ==
  IF published = "None" THEN "None" ELSE SplitType_try_from(published)

(***************************************************************************)
(* C27: a reconciliation compares the published type it read with          *)
(* last_reported_split_type as the tick before left it, and when it        *)
(* completes without error last_reported_split_type is the type it read    *)
(* (absent for an unset value and for one that is not the name of a split  *)
(* type).  So with a user-requested type, a warning about a published type *)
(* that differs from it is logged only by a reconciliation that read       *)
(* another published type than the last one seen, not by later ones that   *)
(* read the same again.                                                    *)
(***************************************************************************)
C27_LastReportedIsWhatWasRead ==
  [][recon'.ran =>
       /\ recon'.last_reported = last_reported_split_type
       /\ recon'.live = Reported(obs'.published)
       /\ recon'.done => last_reported_split_type' = recon'.live
       /\ ~recon'.done => last_reported_split_type' = last_reported_split_type
       /\ recon'.requested # "None" =>
            /\ recon'.done
            /\ (Has(Segment(trace', recon'), "warn_user_kept")
                  \/ Has(Segment(trace', recon'), "warn_user_choice")) =>
                 /\ recon'.live # last_reported_split_type
                 /\ recon'.live \notin { "None", recon'.requested }]_vars

C27_Witness ==
  /\ recon.done /\ recon.requested = "KeyEvents" /\ recon.effective = "KeyEvents"
  /\ recon.live = "RouteDoors" /\ recon.last_reported = "RouteDoors"
  /\ ~Has(Segment(trace, recon), "warn_user_kept")
  /\ last_reported_split_type = "RouteDoors"

(***************************************************************************)
(* C28: in a tick of the Connected state whose keep-alive sync read a      *)
(* reply that is no phase name, the sync asks for no split index and runs  *)
(* no reconciliation: the effective type, the route table and the last     *)
(* published type seen stay as they were.  The loss of the timer is not    *)
(* declared; the tick goes on with the emulator, game and run-state steps, *)
(* and RunState reaches them as the tick before left it.  ConnectionState  *)
(* stays Connected unless a later step of the tick finds the emulator or   *)
(* the game gone, and the client stays connected and the loop running      *)
(* unless a later step of the tick fails in its own exchange with the      *)
(* timer.                                                                  *)
(***************************************************************************)
C28_UnknownPhaseIsRecoverable ==
  [][obs'.phase = "Stopped" /\ connection_state = "Connected" =>
       /\ trace'[1] = "sync" /\ trace'[2] \in { "emulator", "game", "run_state" }
       /\ ~Has(trace', "live_split_gone")
       /\ obs'.index = << >> /\ obs'.published = "NotRead" /\ ~recon'.ran
       /\ effective_split_type' = effective_split_type
       /\ splits' = splits
       /\ last_reported_split_type' = last_reported_split_type
       /\ obs'.run_state # "NotRead" => obs'.run_state = run_state
       /\ obs'.run_state = "NotRead" /\ ~Has(trace', "reset") => run_state' = run_state
       /\ connection_state' = IF Has(trace', "emulator_gone") THEN "EmulatorPending"
                              ELSE IF Has(trace', "game_gone") THEN "GamePending"
                              ELSE "Connected"
       /\ ~is_connected' => Has(trace', "lost") /\ ~running'
       /\ ~running' => Has(trace', "lost") \/ Has(trace', "match")]_vars

C28_Witness ==
  /\ obs.phase = "Stopped" /\ ~recon.ran
  /\ trace = << "sync", "run_state", "match" >>
  /\ obs.run_state = "Active" /\ run_state = "Active"
  /\ connection_state = "Connected" /\ is_connected /\ running
  /\ effective_split_type = "KeyEvents"

(***************************************************************************)
(* C29: ConnectionState changes only like this.  A pending state advances  *)
(* one step, LiveSplitPending to EmulatorPending to GamePending to         *)
(* Connected, in a tick whose probe succeeded (the reconnect, with the     *)
(* client still connected after the sync, the emulator search, the game    *)
(* search); a tick whose probe failed leaves it as it was.  It falls back  *)
(* to the pending state of a dependency only in a tick that found that     *)
(* dependency gone: from Connected, or from GamePending to EmulatorPending *)
(* when the emulator is gone while waiting for a game.                     *)
(***************************************************************************)
C29_ConnectionStateSteps ==
  [][/\ connection_state = "LiveSplitPending" =>
          connection_state' = IF Has(trace', "sync") /\ is_connected' THEN "EmulatorPending"
                              ELSE "LiveSplitPending"
     /\ connection_state = "EmulatorPending" =>
          connection_state' = IF Has(trace', "emulator_found") THEN "GamePending"
                              ELSE "EmulatorPending"
     /\ connection_state = "GamePending" =>
          connection_state' = IF Has(trace', "emulator_gone") THEN "EmulatorPending"
                              ELSE IF Has(trace', "game_found") THEN "Connected"
                              ELSE "GamePending"
     /\ connection_state = "Connected" =>
          connection_state' = IF Has(trace', "live_split_gone") THEN "LiveSplitPending"
                              ELSE IF Has(trace', "emulator_gone") THEN "EmulatorPending"
                              ELSE IF Has(trace', "game_gone") THEN "GamePending"
                              ELSE "Connected"
     /\ Cardinality({ e \in Gone : Has(trace', e) }) <= 1
     /\ Has(trace', "emulator_found") \/ Has(trace', "game_found") =>
          \A e \in Gone : ~Has(trace', e)]_vars

C29_Witness ==
  /\ connection_state = "EmulatorPending"
  /\ trace # << >> /\ trace[1] = "emulator_gone"
  /\ running

\* what a call can return and leave in is_connected, by the model of the
\* client the handlers use
Returns(S) == { << r.res, r.is_connected >> : r \in S }

(***************************************************************************)
(* C30: a send or a receive makes at most MAX_RETRIES = 3 attempts.  Every *)
(* attempt before the last met an error that is not of a connection-fatal  *)
(* kind.  A successful attempt returns Ok and leaves the client as it was; *)
(* an error of a connection-fatal kind marks the client disconnected and   *)
(* returns the error with no further attempt; a third error of another     *)
(* kind marks it disconnected and returns an error.  A disconnected client *)
(* stays disconnected through every send, and is connected again exactly   *)
(* when a try_reconnect returns Ok; a failed try_reconnect leaves it as it *)
(* was.  The send and recv the handlers use return the same.               *)
(***************************************************************************)
C30_BoundedRetries ==
  /\ client.op \in { "send", "recv" } =>
       /\ client.attempts \in 1 .. MAX_RETRIES
       /\ \A k \in 1 .. (client.attempts - 1) : client.io[k] = "other"
       /\ LET last == client.io[client.attempts]
          IN  /\ last = "ok" =>
                   client.res = "Ok" /\ client.is_connected = client.was_connected
              /\ last = "fatal" => client.res = "Err" /\ ~client.is_connected
              /\ last = "other" =>
                   client.attempts = MAX_RETRIES /\ client.res = "Err" /\ ~client.is_connected
       /\ ~client.was_connected => ~client.is_connected /\ client.res = "Err"
       /\ << client.res, client.is_connected >> \in
            Returns(IF client.op = "send"
                      THEN send([Begin EXCEPT !.is_connected = client.was_connected])
                      ELSE recv([Begin EXCEPT !.is_connected = client.was_connected],
                                PhaseLines))
  /\ client.op = "try_reconnect" =>
       client.is_connected = IF client.res = "Ok" THEN TRUE ELSE client.was_connected
  /\ \A c \in BOOLEAN :
       /\ Returns(send([Begin EXCEPT !.is_connected = c])) =
            Returns({ send_io(c, io, 1) : io \in IoSequences(c) })
       /\ Returns(recv([Begin EXCEPT !.is_connected = c], PhaseLines)) =
            Returns({ recv_io(c, io, 1) : io \in IoSequences(c) })

C30_Witness ==
  /\ client.op = "send" /\ client.was_connected
  /\ client.io = << "other", "other", "other" >>
  /\ client.attempts = 3 /\ client.res = "Err" /\ ~client.is_connected

(***************************************************************************)
(* C31: the timer keep-alive is armed to fire on the first Connected tick, *)
(* so the split type is reconciled before any run-state advancement or     *)
(* event matching: a tick that did either has an effective split type.     *)
(* The first tick does run the sync, but a sync that fails on a reply it    *)
(* cannot read, with the connection up, is passed over, and the tick goes  *)
(* on to run-state advancement with no split type reconciled.              *)
(***************************************************************************)
C31_ReconciledBeforeRunState ==
  Has(trace, "run_state") \/ Has(trace, "match") => effective_split_type # "None"

(***************************************************************************)
(* C32: for every stage s and flag index f in 0..191, flag_bank_address    *)
(* returns the address flag_banks_address + 32 * (f div 64) + 8 * s and    *)
(* the mask 2^(f mod 64), a 64-bit value with exactly one bit set; for     *)
(* f >= 192 the shift amount is 64 or more and there is no mask of f: the  *)
(* call panics or returns what it returns for f - 64.                      *)
(***************************************************************************)
\* the positions of the bits set in a u64
Bits(u64) == { i \in 0 .. 63 : (u64[4 - (i \div 16)] \div (2 ^ (i % 16))) % 2 = 1 }

\* a - b for two u32 at most one high half apart
Distance(a, b) == (a[1] - b[1]) * 65536 + (a[2] - b[2])

C32_FlagBankAddress ==
  source.op = "flag_bank_address" =>
    LET f == source.flag_index
        base == GAME_VERSIONS[source.version].flag_banks_address
    IN  /\ f <= 191 =>
              /\ ~source.out.panic
              /\ Distance(source.out.address, base)
                   = 32 * (f \div 64) + 8 * source.stage
              /\ Bits(source.out.mask) = { f % 64 }
        /\ f >= 192 =>
              \/ source.out.panic
              \/ source.out \in flag_bank_address(GAME_VERSIONS[source.version],
                                                   source.stage, f - 64)

\* the call of the unit test: stage D, flag 38 of the first version is
\* bit 38 at 0x801AF9B8
C32_Witness ==
  /\ source.op = "flag_bank_address"
  /\ source.version = 1 /\ source.stage = 3 /\ source.flag_index = 38
  /\ source.out = [panic |-> FALSE, address |-> << 32794, 63928 >>,
                   mask |-> << 0, 64, 0, 0 >>]

(***************************************************************************)
(* C33: at every tick boundary of the running loop, ConnectionState is     *)
(* LiveSplitPending if and only if the timer client is marked              *)
(* disconnected.                                                           *)
(***************************************************************************)
C33_PendingIffDisconnected ==
  running => (connection_state = "LiveSplitPending" <=> ~is_connected)

\* a tick that lost the timer has ended at a boundary of the running loop
C33_Witness ==
  /\ running
  /\ Has(trace, "lost")
  /\ connection_state = "LiveSplitPending"
  /\ ~is_connected

(***************************************************************************)
(* C34: after the final-encounter split has moved RunState to Finished, no *)
(* further split command is sent to the timer until the state source       *)
(* reports a new run start: the tick after the one that sent the final     *)
(* split sends a split only on a new run start.  A keep-alive sync in      *)
(* which the timer reports a running phase puts RunState back to Active    *)
(* with last_room the final-encounter location, and the same tick splits   *)
(* again on the flags that are still set.                                  *)
(***************************************************************************)
C34_NoSplitAfterFinish ==
  [][obs.boss = << TRUE >> /\ running /\ run_state = "Finished"
     /\ Has(trace', "split") /\ running'
       => obs'.menu # << >> /\ is_new_game_start(obs'.menu[1])]_vars

(***************************************************************************)
(* C35: RunState becomes Active only together with last_room being set to  *)
(* the second-location sentinel (0, 1), also when Active is entered by     *)
(* mirroring the timer's phase: a tick that ends without an error and      *)
(* makes RunState Active ends with last_room (0, 1).  The sync sets        *)
(* RunState to Active and leaves last_room as it was, and the progression  *)
(* check of the same tick compares the location with that stale value.     *)
(***************************************************************************)
C35_ActiveSetsSecondRoom ==
  [][run_state # "Active" /\ run_state' = "Active" /\ running'
       => last_room' = SECOND_ROOM]_vars

(***************************************************************************)
(* C36 as stated: whenever ConnectionState is EmulatorPending or           *)
(* GamePending at a tick boundary, RunState is NotStarted, also while      *)
(* passing through these states after a timer reconnect.                   *)
(***************************************************************************)
C36_PendingIsNotStarted ==
  running /\ connection_state \in { "EmulatorPending", "GamePending" }
    => run_state = "NotStarted"

(***************************************************************************)
(* C36, amended: a tick that ends in EmulatorPending or GamePending ends   *)
(* with RunState NotStarted, unless it is the tick of a timer reconnect,   *)
(* whose sync has mirrored the timer, or a tick that began in one of these *)
(* two states and has left RunState as it was.  A run is tracked as        *)
(* started in these states only from a reconnect on.                       *)
(***************************************************************************)
C36_PendingStartedOnlyByReconnect ==
  [][running' /\ connection_state' \in { "EmulatorPending", "GamePending" } =>
       \/ run_state' = "NotStarted"
       \/ connection_state = "LiveSplitPending" /\ Has(trace', "sync")
       \/ /\ connection_state \in { "EmulatorPending", "GamePending" }
          /\ run_state' = run_state]_vars

\* the emulator was lost in a started run: the run was reset
C36_Witness ==
  /\ running
  /\ connection_state = "EmulatorPending"
  /\ After(trace, "emulator_gone", "reset")
  /\ run_state = "NotStarted"

(***************************************************************************)
(* C37: a timer synchronization never moves RunState from Active back to   *)
(* Intro.  When RunState is Active and the timer reports a running or      *)
(* paused phase, the sync leaves RunState Active and does not ask for the  *)
(* split index; from any other RunState the same report gives Intro at     *)
(* index 0 and Active at any other index.  The RunState meant is the one   *)
(* the sync hands to the split-type reconciliation.                        *)
(***************************************************************************)
C37_SyncKeepsActive ==
  [][(/\ Has(trace', "sync") /\ recon'.ran
      /\ TimerPhase_try_from_raw(obs'.phase) \in { "Running", "Paused" })
       => /\ run_state = "Active" =>
               recon'.run_state = "Active" /\ obs'.index = << >>
          /\ run_state # "Active" =>
               /\ obs'.index # << >>
               /\ recon'.run_state = IF obs'.index = << 0 >> THEN "Intro" ELSE "Active"]_vars

\* a sync of an active run with a running timer: no index was asked for
C37_Witness ==
  /\ Has(trace, "sync") /\ recon.ran
  /\ obs.phase = "Paused"
  /\ obs.index = << >>
  /\ recon.run_state = "Active"

(***************************************************************************)
(* C38: reset() sends a reset command exactly when RunState is not         *)
(* NotStarted; on success RunState becomes NotStarted; if the command      *)
(* fails RunState is left unchanged; when RunState is NotStarted it sends  *)
(* nothing and changes nothing, so a second reset() right after a          *)
(* successful one is a no-op.                                              *)
(***************************************************************************)
C38_Reset ==
  /\ run_state = "NotStarted" => reset(Begin) = { Ok(Begin) }
  /\ run_state # "NotStarted" =>
       \A r \in reset(Begin) :
         /\ Count(r.trace, "reset") = 1
         /\ r.res = "Ok" => r.run_state = "NotStarted" /\ reset(r) = { r }
         /\ r.res # "Ok" => r.run_state = run_state

\* a started run whose reset is delivered, and one whose reset fails
C38_Witness ==
  /\ running /\ run_state = "Finished"
  /\ \E r \in reset(Begin) : r.res = "Ok" /\ r.run_state = "NotStarted"
  /\ \E r \in reset(Begin) : r.res # "Ok" /\ r.run_state = "Finished"

(***************************************************************************)
(* C39: in every reachable state the active route table is the table of    *)
(* the effective split type (no table when there is no effective type or   *)
(* it is an all-doors type), and once the effective split type has been    *)
(* set it never becomes unset again.                                       *)
(***************************************************************************)
C39_TableOfEffectiveType ==
  [][/\ splits = (IF effective_split_type = "None" THEN "None"
                  ELSE SplitType_splits(effective_split_type))
     /\ splits' = (IF effective_split_type' = "None" THEN "None"
                   ELSE SplitType_splits(effective_split_type'))
     /\ effective_split_type # "None" => effective_split_type' # "None"]_vars

\* the published type has replaced another effective type, and its table is in use
C39_Witness ==
  /\ recon.ran /\ recon.effective = "KeyEvents"
  /\ effective_split_type = "RouteDoors"
  /\ splits = "DOOR_SPLITS"

(***************************************************************************)
(* C40: the state source never reports at-main-menu and new-run-start as   *)
(* both true.  For the memory-backed source they are the disjoint ranges   *)
(* 0..98 and 99..199 of one menu-state value, both false when the          *)
(* main-menu module is not loaded; for the capture-backed source the two   *)
(* flags are never both set after any sequence of frames.                  *)
(***************************************************************************)
C40_MenuFlagsExclusive ==
  /\ ~(source.at_main_menu /\ source.new_game_start)
  /\ source.at_main_menu <=> source.menu_state \in 0 .. 98
  /\ source.new_game_start <=> source.menu_state \in 99 .. 199
  /\ ~source.loaded => ~source.at_main_menu /\ ~source.new_game_start
  /\ ~(source.console.is_at_main_menu /\ source.console.is_new_game_start)

\* the memory-backed source has reported a new run start, and the
\* capture-backed source has seen the main menu fade out
C40_Witness ==
  /\ source.op = "check_frame"
  /\ source.console.is_new_game_start /\ ~source.console.is_at_main_menu
  /\ source.loaded /\ source.menu_state = TRAILER_MENU_STATE - 1
  /\ source.new_game_start

====
